---- MODULE Spec2Model ----
(***************************************************************************)
(* Model of the per-session run orchestrator of clawdbot                   *)
(* (src/auto-reply/reply/agent-runner.ts): the steer / enqueue gate of     *)
(* runReplyAgent, the followup queue it feeds, the end of a turn, and the  *)
(* session reset closure resetSession.                                     *)
(*                                                                         *)
(* JavaScript is single threaded: the code between two awaits is one       *)
(* atomic action; every await whose continuation touches shared state is a *)
(* separate action.                                                        *)
(***************************************************************************)
EXTENDS Integers, Sequences, FiniteSets, TLC

\* ----- bounds ------------------------------------------------------------
MaxMsgs == 3        \* inbound messages (runReplyAgent calls) per behaviour

\* ----- value sets --------------------------------------------------------
Keys == {"k1", "k2"}            \* queue keys (= session keys)
Modes == {"steer", "queue"}      \* resolvedQueue.mode; only "steer" is tested
SessCfgs == {"full", "noPath", "none"}
Msgs == 1..MaxMsgs
NoObj == 0

VARIABLES
  nextMsg,      \* id of the next inbound message
  pc,           \* position of each runReplyAgent call
  mkey,         \* per message: its queue key
  path,         \* per message: the branch runReplyAgent took at the gate
  bumpAt,       \* per message: the updatedAt its bump captured
  lastGate,     \* the most recent runReplyAgent call: its isActive,
                \* shouldFollowup and mode, and steered, the value of
                \* line 177 (false when line 176 skips the injection)
  sessCfg,      \* which of session entry / store / key / path the caller has
  queue,        \* followup queue per key (FIFO of message ids)
  active,       \* agent turns executing per key
  draining,     \* per key: a drained followup turn is in progress
  fstate,       \* per message: its life as a followup run
  injected,     \* messages injected into a running turn
  enqCalls,     \* per message: number of enqueueFollowupRun calls
  typingCleaned,\* per message: typing.cleanup() was called
  result,       \* per message: what runReplyAgent returned
  enqOrder,     \* per key: followups in the order they were enqueued
  startOrder,   \* per key: followups in the order their turn started
  heap,         \* session entry objects
  memStore,     \* activeSessionStore: key -> entry object
  disk,         \* durable session store: key -> record
  clock,        \* Date.now()
  rpc,          \* position of the turn that exercises resetSession
  rcfg,         \* which of sessionKey / store / storePath / entry it has
  thread,       \* sessionCtx.MessageThreadId (0: none)
  turnNo,       \* number of turns started
  attempts,     \* agent executions of the current turn
  failKind,     \* failure class of the first failed execution
  activeEntry,  \* activeSessionEntry
  activeIsNewSession,
  followupRun,  \* followupRun.run.sessionId / sessionFile
  files,        \* transcript files that exist
  unlinkTried,  \* paths fs.unlinkSync was called on by the last reset
  errLog,       \* defaultRuntime.error lines of the last reset
  resetRet,     \* what the last resetSession call returned
  resetCalls,   \* resetSession calls of the current turn
  retries,      \* retries of the current turn
  turnResult,   \* outcome of the current turn
  pre,          \* the state resetSession was called in
  introAt,      \* the updatedAt captured when the group intro was cleared
  nextSid       \* next value of crypto.randomUUID()

schedVars == <<nextMsg, pc, mkey, path, bumpAt, lastGate, sessCfg, queue,
               active, draining, fstate, injected, enqCalls, typingCleaned,
               result, enqOrder, startOrder>>
sessVars == <<heap, memStore, disk, clock>>
resetVars == <<rpc, rcfg, thread, turnNo, attempts, failKind, activeEntry,
               activeIsNewSession, followupRun, files, unlinkTried, errLog,
               resetRet, resetCalls, retries, turnResult, pre, introAt,
               nextSid>>

\* ----- session records ---------------------------------------------------
\* resolveSessionTranscriptPath(sessionId, agentId, topicId)
resolveSessionTranscriptPath(sid, topic) == <<"transcript", sid, topic>>

NoFile == <<>>
NoRec == [sessionId |-> 0]

InitEntry(sid) ==
  [sessionId |-> sid, sessionFile |-> resolveSessionTranscriptPath(sid, 0),
   updatedAt |-> 0, systemSent |-> TRUE, abortedLastRun |-> FALSE,
   groupActivationNeedsSystemIntro |-> FALSE, compactionCount |-> 1,
   contextTokens |-> 1, responseUsage |-> "tokens"]

KeyIndex(k) == IF k = "k1" THEN 1 ELSE 2

\* ----- the gate of runReplyAgent ----------------------------------------
\* isActive as the caller passes it: a turn is executing for the key
isActive(k) == active[k] # {}

\* queueEmbeddedPiMessage(sessionId, prompt): the engine may accept an
\* injection only into a running turn
queueEmbeddedPiMessage(k) == IF active[k] # {} THEN BOOLEAN ELSE {FALSE}

\* line 176: shouldSteer && isStreaming
SteerAttempted(p) == p.shouldSteer /\ p.isStreaming

\* the followup test of line 178 inverted
SteerConsumedWrongFlag(p) ==
  SteerAttempted(p) /\ p.steered /\ p.shouldFollowup

\* line 178: steered && !shouldFollowup
SteerConsumed(p) == SteerAttempted(p) /\ p.steered /\ ~p.shouldFollowup

\* line 196 without the steer-mode disjunct
ShouldEnqueueFollowupOnly(p) == p.isActive /\ p.shouldFollowup

\* line 196: isActive && (shouldFollowup || resolvedQueue.mode === "steer")
ShouldEnqueue(p) == p.isActive /\ (p.shouldFollowup \/ p.mode = "steer")

\* lines 179 and 198: activeSessionEntry && activeSessionStore && sessionKey
CanBump == sessCfg # "none"

\* lines 183 and 202: storePath
HasStorePath == sessCfg = "full"

\* lines 180-182 and 199-201: the bump of the in-memory entry; the caller's
\* sessionEntry is the store's entry object
BumpInMemory(k, m) ==
  IF CanBump
  THEN /\ heap' = [heap EXCEPT ![memStore[k]].updatedAt = clock + 1]
       /\ bumpAt' = [bumpAt EXCEPT ![m] = clock + 1]
       /\ clock' = clock + 1
       /\ UNCHANGED memStore
  ELSE UNCHANGED <<heap, memStore, clock, bumpAt>>

\* Where the early-return paths go after the bump: to the await of the
\* durable write (lines 184, 203) or straight to typing.cleanup() and
\* return undefined (lines 191-192, 210-211).
AfterBump(m, awaiting) ==
  IF CanBump /\ HasStorePath
  THEN /\ pc' = [pc EXCEPT ![m] = awaiting]
       /\ UNCHANGED <<typingCleaned, result>>
  ELSE /\ pc' = [pc EXCEPT ![m] = "returned"]
       /\ typingCleaned' = [typingCleaned EXCEPT ![m] = TRUE]
       /\ result' = [result EXCEPT ![m] = "undefined"]

\* enqueueFollowupRun(queueKey, followupRun, resolvedQueue)
enqueueFollowupRun(k, m) ==
  /\ queue' = [queue EXCEPT ![k] = Append(@, m)]
  /\ enqCalls' = [enqCalls EXCEPT ![m] = @ + 1]
  /\ enqOrder' = [enqOrder EXCEPT ![k] = Append(@, m)]
  /\ fstate' = [fstate EXCEPT ![m] = "queued"]

\* lines 176-194, taken when the injection is accepted and no followup is
\* wanted: bump, typing.cleanup(), return undefined
SteerBranch(k, m) ==
  /\ path' = [path EXCEPT ![m] = "steer"]
  /\ BumpInMemory(k, m)
  /\ AfterBump(m, "steer_persist")
  /\ UNCHANGED <<queue, enqCalls, enqOrder, fstate, active>>

\* lines 196-212 without the return: the enqueued message is also run
EnqueueBranchNoReturn(k, m) ==
  /\ path' = [path EXCEPT ![m] = "enqueue"]
  /\ enqueueFollowupRun(k, m)
  /\ BumpInMemory(k, m)
  /\ pc' = [pc EXCEPT ![m] = "running"]
  /\ active' = [active EXCEPT ![k] = @ \cup {m}]
  /\ UNCHANGED <<typingCleaned, result>>

\* lines 196-212: enqueue, bump, typing.cleanup(), return undefined
EnqueueBranch(k, m) ==
  /\ path' = [path EXCEPT ![m] = "enqueue"]
  /\ enqueueFollowupRun(k, m)
  /\ BumpInMemory(k, m)
  /\ AfterBump(m, "enq_persist")
  /\ UNCHANGED active

\* lines 214-408: the call goes on to agent execution; the turn is active
RunBranch(k, m) ==
  /\ path' = [path EXCEPT ![m] = "run"]
  /\ pc' = [pc EXCEPT ![m] = "running"]
  /\ active' = [active EXCEPT ![k] = @ \cup {m}]
  /\ UNCHANGED <<queue, enqCalls, enqOrder, fstate, typingCleaned, result,
                 heap, memStore, clock, bumpAt>>

\* An inbound message: runReplyAgent is called and runs to its first await
\* (lines 58-214).
RunReplyAgent(m) ==
  /\ m = nextMsg
  /\ m <= MaxMsgs
  /\ \E k \in Keys, shouldSteer \in BOOLEAN, shouldFollowup \in BOOLEAN,
        mode \in Modes :
     \E isStreaming \in (IF isActive(k) THEN BOOLEAN ELSE {FALSE}) :
     \E steered \in (IF shouldSteer /\ isStreaming
                     THEN queueEmbeddedPiMessage(k) ELSE {FALSE}) :
       LET p == [key |-> k, isActive |-> isActive(k),
                 shouldSteer |-> shouldSteer,
                 shouldFollowup |-> shouldFollowup,
                 isStreaming |-> isStreaming, steered |-> steered,
                 mode |-> mode]
       IN
       /\ nextMsg' = m + 1
       /\ lastGate' = [m |-> m, key |-> k, isActive |-> p.isActive,
                       shouldFollowup |-> shouldFollowup,
                       steered |-> steered, mode |-> mode,
                       queuedAhead |-> queue[k] # <<>>,
                       updatedAtBefore |-> heap[memStore[k]].updatedAt]
       /\ mkey' = [mkey EXCEPT ![m] = k]
       /\ injected' = IF steered THEN injected \cup {m} ELSE injected
       /\ IF SteerConsumed(p) THEN SteerBranch(k, m)
          ELSE IF ShouldEnqueue(p) THEN EnqueueBranch(k, m)
          ELSE RunBranch(k, m)
  /\ UNCHANGED <<sessCfg, draining, startOrder, disk>>

\* updateSessionStoreEntry({storePath, sessionKey, update}): the patch the
\* update callback returns is merged into the durable record
updateSessionStoreEntry(rec, patch) ==
  [f \in DOMAIN rec |-> IF f \in DOMAIN patch THEN patch[f] ELSE rec[f]]

\* The awaited durable write of the bump resolves; typing.cleanup() and
\* return undefined follow (lines 184-192 and 203-211).
BumpPersistOk(m) ==
  /\ pc[m] \in {"steer_persist", "enq_persist"}
  /\ disk' = [disk EXCEPT ![mkey[m]] = updateSessionStoreEntry(@, [updatedAt |-> bumpAt[m]])]
  /\ typingCleaned' = [typingCleaned EXCEPT ![m] = TRUE]
  /\ result' = [result EXCEPT ![m] = "undefined"]
  /\ pc' = [pc EXCEPT ![m] = "returned"]
  /\ UNCHANGED <<nextMsg, mkey, path, bumpAt, lastGate, sessCfg, queue,
                 active, draining, fstate, injected, enqCalls, enqOrder,
                 startOrder, heap, memStore, clock>>

\* The awaited durable write rejects: no try/catch surrounds the await, so
\* the rejection leaves runReplyAgent and lines 191-192 / 210-211 are skipped.
BumpPersistFail(m) ==
  /\ pc[m] \in {"steer_persist", "enq_persist"}
  /\ pc' = [pc EXCEPT ![m] = "rejected"]
  /\ result' = [result EXCEPT ![m] = "error"]
  /\ UNCHANGED <<nextMsg, mkey, path, bumpAt, lastGate, sessCfg, queue,
                 active, draining, fstate, injected, enqCalls, typingCleaned,
                 enqOrder, startOrder, sessVars>>

\* ----- the end of a turn -------------------------------------------------
\* scheduleFollowupDrain(queueKey, runFollowupTurn): unless a drain is in
\* progress, the oldest queued followup is started as the next turn; act is
\* the set of turns still executing for the key.
scheduleFollowupDrain(k, act) ==
  IF ~draining[k] /\ queue[k] # <<>>
  THEN LET f == Head(queue[k]) IN
       /\ queue' = [queue EXCEPT ![k] = Tail(@)]
       /\ active' = [active EXCEPT ![k] = act \cup {f}]
       /\ draining' = [draining EXCEPT ![k] = TRUE]
       /\ fstate' = [fstate EXCEPT ![f] = "active"]
       /\ startOrder' = [startOrder EXCEPT ![k] = Append(@, f)]
  ELSE /\ active' = [active EXCEPT ![k] = act]
       /\ UNCHANGED <<queue, draining, fstate, startOrder>>

\* finalizeWithFollowup(value, queueKey, runFollowupTurn)
finalizeWithFollowup(k, act) == scheduleFollowupDrain(k, act)

Outcomes == {"payloads", "empty", "final"}

\* Agent execution returns and runReplyAgent returns through one of its
\* finalizeWithFollowup sites (lines 410-412, 477-478, 499-500, 602-606).
TurnReturn(m) ==
  /\ pc[m] = "running"
  /\ \E o \in Outcomes :
       result' = [result EXCEPT ![m] = IF o = "empty" THEN "undefined"
                                       ELSE "payloads"]
  /\ finalizeWithFollowup(mkey[m], active[mkey[m]] \ {m})
  /\ pc' = [pc EXCEPT ![m] = "returned"]
  /\ UNCHANGED <<nextMsg, mkey, path, bumpAt, lastGate, sessCfg, injected,
                 enqCalls, typingCleaned, enqOrder, sessVars>>

\* An exception inside the try block (lines 383-606): only the finally
\* block (lines 607-620) runs, and it has no finalizeWithFollowup.
TurnThrow(m) ==
  /\ pc[m] = "running"
  /\ active' = [active EXCEPT ![mkey[m]] = @ \ {m}]
  /\ pc' = [pc EXCEPT ![m] = "rejected"]
  /\ result' = [result EXCEPT ![m] = "error"]
  /\ UNCHANGED <<nextMsg, mkey, path, bumpAt, lastGate, sessCfg, queue,
                 draining, fstate, injected, enqCalls, typingCleaned,
                 enqOrder, startOrder, sessVars>>

\* A drained followup turn ends; the drain loop takes the next entry or
\* stops.
FollowupEnd(f) ==
  /\ fstate[f] = "active"
  /\ LET k == mkey[f] IN
     IF queue[k] # <<>>
     THEN LET g == Head(queue[k]) IN
          /\ queue' = [queue EXCEPT ![k] = Tail(@)]
          /\ active' = [active EXCEPT ![k] = (@ \ {f}) \cup {g}]
          /\ fstate' = [fstate EXCEPT ![f] = "done", ![g] = "active"]
          /\ startOrder' = [startOrder EXCEPT ![k] = Append(@, g)]
          /\ UNCHANGED draining
     ELSE /\ active' = [active EXCEPT ![k] = @ \ {f}]
          /\ fstate' = [fstate EXCEPT ![f] = "done"]
          /\ draining' = [draining EXCEPT ![k] = FALSE]
          /\ UNCHANGED <<queue, startOrder>>
  /\ UNCHANGED <<nextMsg, pc, mkey, path, bumpAt, lastGate, sessCfg,
                 injected, enqCalls, typingCleaned, result, enqOrder,
                 sessVars>>

NoGate ==
  [m |-> 0, key |-> "k1", isActive |-> FALSE, shouldFollowup |-> FALSE,
   steered |-> FALSE, mode |-> "queue", queuedAhead |-> FALSE,
   updatedAtBefore |-> 0]

SchedInit ==
  /\ nextMsg = 1
  /\ pc = [m \in Msgs |-> "new"]
  /\ mkey = [m \in Msgs |-> "k1"]
  /\ path = [m \in Msgs |-> "none"]
  /\ bumpAt = [m \in Msgs |-> 0]
  /\ lastGate = NoGate
  /\ sessCfg \in SessCfgs
  /\ queue = [k \in Keys |-> <<>>]
  /\ active = [k \in Keys |-> {}]
  /\ draining = [k \in Keys |-> FALSE]
  /\ fstate = [m \in Msgs |-> "none"]
  /\ injected = {}
  /\ enqCalls = [m \in Msgs |-> 0]
  /\ typingCleaned = [m \in Msgs |-> FALSE]
  /\ result = [m \in Msgs |-> "none"]
  /\ enqOrder = [k \in Keys |-> <<>>]
  /\ startOrder = [k \in Keys |-> <<>>]

SessInit ==
  /\ heap = [o \in 1..Cardinality(Keys) |-> InitEntry(o)]
  /\ memStore = [k \in Keys |-> KeyIndex(k)]
  /\ disk = [k \in Keys |-> InitEntry(KeyIndex(k))]
  /\ clock = 0

\* ----- resetSession (lines 249-302) and the turn that calls it -----------
MaxTurns == 2       \* turns run one after the other on the session key
SK == "k1"          \* their session key
Topic == 7          \* a MessageThreadId

Snapshot(cleanup, nextRef) ==
  [prevSid |-> IF memStore[SK] # NoObj \/ activeEntry # NoObj
               THEN heap[IF memStore[SK] # NoObj THEN memStore[SK]
                         ELSE activeEntry].sessionId
               ELSE 0,
   cleanup |-> cleanup, nextRef |-> nextRef, heap |-> heap,
   memStore |-> memStore, disk |-> disk, followupRun |-> followupRun,
   activeEntry |-> activeEntry, isNew |-> activeIsNewSession,
   files |-> files]

\* the guards of lines 254 and 256 without the storePath test
ResetApplicableNoPathTest ==
  /\ rcfg.hasKey /\ rcfg.hasStore
  /\ memStore[SK] # NoObj \/ activeEntry # NoObj

\* lines 254-256: sessionKey, activeSessionStore, storePath and a previous
\* entry are all present
ResetApplicable ==
  /\ rcfg.hasKey /\ rcfg.hasStore /\ rcfg.hasPath
  /\ memStore[SK] # NoObj \/ activeEntry # NoObj

\* line 255: activeSessionStore[sessionKey] ?? activeSessionEntry
PrevEntry == IF memStore[SK] # NoObj THEN memStore[SK] ELSE activeEntry

\* nextEntry built without the spread of prevEntry of line 260
NextEntryFresh(prev, sid, now, topic) ==
  [InitEntry(sid) EXCEPT !.updatedAt = now, !.systemSent = FALSE,
                         !.sessionFile =
                           resolveSessionTranscriptPath(sid, topic)]

\* lines 259-272 with the two flags copied from the previous entry
NextEntryKeepsFlags(prev, sid, now, topic) ==
  [prev EXCEPT !.sessionId = sid, !.updatedAt = now,
               !.sessionFile = resolveSessionTranscriptPath(sid, topic)]

\* lines 259-272: nextEntry
NextEntry(prev, sid, now, topic) ==
  [prev EXCEPT !.sessionId = sid, !.updatedAt = now, !.systemSent = FALSE,
               !.abortedLastRun = FALSE,
               !.sessionFile = resolveSessionTranscriptPath(sid, topic)]

\* lines 257-273: up to the await of updateSessionStore
ResetBegin(cleanup) ==
  /\ heap' = Append(heap, NextEntry(heap[PrevEntry], nextSid, clock + 1,
                                    thread))
  /\ memStore' = [memStore EXCEPT ![SK] = Len(heap) + 1]
  /\ nextSid' = nextSid + 1
  /\ clock' = clock + 1
  /\ pre' = Snapshot(cleanup, Len(heap) + 1)
  /\ rpc' = "reset_persist"
  /\ unlinkTried' = {}
  /\ errLog' = {}
  /\ UNCHANGED <<disk, resetRet, turnResult, followupRun, activeEntry,
                 activeIsNewSession, files, retries, attempts, introAt>>

\* lines 254, 256: return false
ResetRefused(cleanup) ==
  /\ resetRet' = "false"
  /\ pre' = Snapshot(cleanup, NoObj)
  /\ rpc' = "done"
  /\ turnResult' = "error"
  /\ unlinkTried' = {}
  /\ errLog' = {}
  /\ UNCHANGED <<heap, memStore, disk, clock, nextSid, followupRun,
                 activeEntry, activeIsNewSession, files, retries, attempts,
                 introAt>>

resetSession(cleanup) ==
  IF ResetApplicable THEN ResetBegin(cleanup) ELSE ResetRefused(cleanup)

\* lines 303-308
resetSessionAfterCompactionFailure == resetSession(FALSE)

\* lines 309-315
resetSessionAfterRoleOrderingConflict == resetSession(TRUE)

\* resolveSessionFilePath(sessionId, entry, {agentId}): the file the store
\* entry names, else the by-id path
resolveSessionFilePath(sid, entry) ==
  IF entry.sessionFile # NoFile THEN entry.sessionFile
  ELSE resolveSessionTranscriptPath(sid, 0)

\* lines 289-292: transcriptCandidates
TranscriptCandidates(sid, entry) ==
  {resolveSessionFilePath(sid, entry), resolveSessionTranscriptPath(sid, 0)}

\* the loop of lines 293-299 with the try around the loop instead of inside
UnlinkUntilFailure(sid, entry, failing) ==
  IF resolveSessionFilePath(sid, entry) \in failing
  THEN {resolveSessionFilePath(sid, entry)}
  ELSE TranscriptCandidates(sid, entry)

\* lines 293-299: the paths fs.unlinkSync is called on, given those on
\* which it throws
UnlinkAttempts(sid, entry, failing) == TranscriptCandidates(sid, entry)

\* lines 283-284 left out
KeepFollowupRun(run, sid, file) == run

\* lines 283-284: followupRun.run.sessionId / sessionFile
RetargetFollowupRun(run, sid, file) ==
  [sessionId |-> sid, sessionFile |-> file]

\* lines 283-301, then the retry of the turn
ResetFinish ==
  LET next == heap[pre.nextRef]
      prevEntry == pre.heap[IF pre.memStore[SK] # NoObj THEN pre.memStore[SK]
                            ELSE pre.activeEntry]
  IN
  /\ followupRun' = RetargetFollowupRun(followupRun, next.sessionId,
                                        next.sessionFile)
  /\ activeEntry' = pre.nextRef
  /\ activeIsNewSession' = TRUE
  /\ IF pre.cleanup /\ pre.prevSid # 0
     THEN \E failing \in SUBSET TranscriptCandidates(pre.prevSid, prevEntry) :
            /\ (TranscriptCandidates(pre.prevSid, prevEntry) \ files)
                 \subseteq failing
            /\ unlinkTried' = UnlinkAttempts(pre.prevSid, prevEntry, failing)
            /\ files' = files \ (unlinkTried' \ failing)
     ELSE UNCHANGED <<files, unlinkTried>>
  /\ resetRet' = "true"
  /\ retries' = retries + 1
  /\ attempts' = attempts + 1
  /\ rpc' = "exec"
  /\ UNCHANGED <<heap, memStore, clock, nextSid, pre, turnResult, introAt>>

\* updateSessionStore(storePath, store => { store[sessionKey] = nextEntry })
updateSessionStore(store, entry) == [store EXCEPT ![SK] = entry]

\* lines 274-277: the durable write resolves
ResetPersistOk ==
  /\ rpc = "reset_persist"
  /\ disk' = updateSessionStore(disk, heap[pre.nextRef])
  /\ errLog' = {"reset"}
  /\ ResetFinish
  /\ UNCHANGED <<rcfg, thread, turnNo, failKind, resetCalls>>

\* the write rejects outside any try: the rejection leaves resetSession
ResetPersistFailRaises ==
  /\ rpc = "reset_persist"
  /\ rpc' = "rejected"
  /\ turnResult' = "error"
  /\ UNCHANGED <<sessVars, rcfg, thread, turnNo, attempts, failKind,
                 activeEntry, activeIsNewSession, followupRun, files,
                 unlinkTried, errLog, resetRet, resetCalls, retries, pre,
                 introAt, nextSid>>

\* lines 278-282: the durable write rejects, the catch logs it
ResetPersistFail ==
  /\ rpc = "reset_persist"
  /\ errLog' = {"persist", "reset"}
  /\ ResetFinish
  /\ UNCHANGED <<disk, rcfg, thread, turnNo, failKind, resetCalls>>

\* The caller's view when a turn starts: sessionEntry, followupRun
CallerEntry ==
  IF ~rcfg.hasEntryParam THEN NoObj
  ELSE IF memStore[SK] # NoObj THEN memStore[SK] ELSE 1

TurnStart ==
  /\ rpc \in {"idle", "done"}
  /\ turnNo < MaxTurns
  /\ turnNo' = turnNo + 1
  /\ rpc' = "exec"
  /\ attempts' = 1
  /\ retries' = 0
  /\ resetCalls' = 0
  /\ failKind' = "none"
  /\ resetRet' = "none"
  /\ turnResult' = "none"
  /\ activeEntry' = CallerEntry
  /\ activeIsNewSession' = FALSE
  /\ followupRun' =
       LET e == heap[IF memStore[SK] # NoObj THEN memStore[SK] ELSE 1] IN
       [sessionId |-> e.sessionId,
        sessionFile |-> resolveSessionFilePath(e.sessionId, e)]
  /\ \E written \in BOOLEAN :
       files' = IF written THEN files \cup {followupRun'.sessionFile}
                ELSE files
  /\ unlinkTried' = {}
  /\ errLog' = {}
  /\ UNCHANGED <<sessVars, rcfg, thread, pre, introAt, nextSid>>

\* lines 424-425 left out: the entry is not touched in memory
ClearGroupIntroDurableOnly(entry, now) == entry

\* lines 424-426: the pending group intro is cleared on the in-memory entry
ClearGroupIntro(entry, now) ==
  [entry EXCEPT !.groupActivationNeedsSystemIntro = FALSE, !.updatedAt = now]

\* lines 417-423: the condition under which the intro is cleared
GroupIntroOwed(shouldInjectGroupIntro) ==
  /\ shouldInjectGroupIntro
  /\ activeEntry # NoObj
  /\ rcfg.hasStore
  /\ rcfg.hasKey
  /\ heap[activeEntry].groupActivationNeedsSystemIntro

\* Agent execution succeeds (line 385 resolves with a run result); lines
\* 417-428 clear the pending group intro in memory and reach the await of
\* the durable write.
AttemptOk ==
  /\ rpc = "exec"
  /\ \E shouldInjectGroupIntro \in BOOLEAN :
       IF GroupIntroOwed(shouldInjectGroupIntro)
       THEN /\ heap' = [heap EXCEPT
                          ![activeEntry] = ClearGroupIntro(@, clock + 1)]
            /\ memStore' = [memStore EXCEPT ![SK] = activeEntry]
            /\ introAt' = clock + 1
            /\ clock' = clock + 1
            /\ IF rcfg.hasPath
               THEN rpc' = "intro_persist" /\ UNCHANGED turnResult
               ELSE rpc' = "done" /\ turnResult' = "ok"
       ELSE /\ rpc' = "done"
            /\ turnResult' = "ok"
            /\ UNCHANGED <<heap, memStore, clock, introAt>>
  /\ UNCHANGED <<disk, rcfg, thread, turnNo, attempts, failKind,
                 activeEntry, activeIsNewSession, followupRun, files,
                 unlinkTried, errLog, resetRet, resetCalls, retries, pre,
                 nextSid>>

\* lines 429-436: the durable write of the cleared intro resolves
IntroPersistOk ==
  /\ rpc = "intro_persist"
  /\ disk' = [disk EXCEPT ![SK] =
               updateSessionStoreEntry(@,
                 [groupActivationNeedsSystemIntro |-> FALSE,
                  updatedAt |-> introAt])]
  /\ rpc' = "done"
  /\ turnResult' = "ok"
  /\ UNCHANGED <<heap, memStore, clock, rcfg, thread, turnNo, attempts,
                 failKind, activeEntry, activeIsNewSession, followupRun,
                 files, unlinkTried, errLog, resetRet, resetCalls, retries,
                 pre, introAt, nextSid>>

\* lines 429-436: the durable write rejects; the await is inside the try of
\* line 383, which has no catch, so runReplyAgent rejects
IntroPersistFail ==
  /\ rpc = "intro_persist"
  /\ rpc' = "done"
  /\ turnResult' = "rejected"
  /\ UNCHANGED <<sessVars, rcfg, thread, turnNo, attempts, failKind,
                 activeEntry, activeIsNewSession, followupRun, files,
                 unlinkTried, errLog, resetRet, resetCalls, retries, pre,
                 introAt, nextSid>>

\* agent execution fails with a compaction failure or a role-ordering
\* conflict and the turn has not been reset yet: the session is reset
AttemptFailReset ==
  /\ rpc = "exec"
  /\ resetCalls = 0
  /\ \E kind \in {"compaction", "role"} :
       /\ failKind' = kind
       /\ IF kind = "role" THEN resetSessionAfterRoleOrderingConflict
          ELSE resetSessionAfterCompactionFailure
  /\ resetCalls' = 1
  /\ UNCHANGED <<rcfg, thread, turnNo>>

\* agent execution fails after the reset, or with another error: the
\* failure is the final outcome of the turn
AttemptFailFinal ==
  /\ rpc = "exec"
  /\ rpc' = "done"
  /\ turnResult' = "error"
  /\ UNCHANGED <<sessVars, rcfg, thread, turnNo, attempts, failKind,
                 activeEntry, activeIsNewSession, followupRun, files,
                 unlinkTried, errLog, resetRet, resetCalls, retries, pre,
                 introAt, nextSid>>

\* ----- StatusUpdateController (status-updates.ts) ------------------------
MaxCalls == 3        \* calls into the controller (methods and timer ticks)

\* values of Date.now() (ms since the controller was constructed): before,
\* at and after the elapsed-time threshold of StatusConfigs
Times == {0, 500, 1000}

Phases == {"sending_query", "receiving_reasoning", "processing_tools",
           "generating_response", "complete"}
\* The controller treats every phase but "complete" alike: setPhase is
\* called with the initial phase, one later phase and "complete"
PhaseInputs == {"sending_query", "processing_tools", "complete"}
StatusModes == {"off", "edit", "inline"}

\* the callback sets a controller is built with: createEditableStatusCallbacks,
\* createInlineStatusCallbacks, the statusCallbacks of runReplyAgent (status
\* sent as a block reply) and noopStatusCallbacks
CallbackSets == {"editable", "inline", "blockReply", "noop"}

Undefined == <<>>
Hi == <<"h", "i", " ">>      \* a final text that ends in white space
FinalTexts == {Undefined, Hi}
NoId == 0
Started == -1       \* start() has returned

VARIABLES
  scfg,          \* the resolved StatusUpdateConfig
  callbacks,     \* the callback set
  state,         \* StatusUpdateState
  updateTimer,   \* an interval is scheduled
  stopped,
  now,           \* the last value Date.now() returned
  inflight,      \* sendStatus calls awaiting their result
  startPc,       \* 0: start() not called; n: it awaits sendStatus call n
  pendingDelete, \* deleteStatus calls awaiting their result
  posted,        \* status messages posted to the channel
  nextMessageId, \* the id the channel gives the next posted message
  sendCount,     \* sendStatus invocations
  deleteCount,   \* deleteStatus invocations
  lastSend,      \* the most recent sendStatus invocation
  lastCall,      \* the most recent call into the controller
  calls,         \* number of calls into the controller
  firstComplete, \* the first complete() call: its argument and result,
                 \* whether it found the controller stopped, and whether
                 \* complete() was called again
  failed,        \* a sendStatus or deleteStatus call has rejected
  raised         \* a call into the controller has rejected

statusVars == <<scfg, callbacks, state, updateTimer, stopped, now, inflight,
                startPc, pendingDelete, posted, nextMessageId, sendCount,
                deleteCount, lastSend, lastCall, calls, firstComplete,
                failed, raised>>

\* lines 64-72
DEFAULT_CONFIG ==
  [enabled |-> FALSE, mode |-> "edit", showPhases |-> TRUE,
   showElapsedTime |-> TRUE, markFinalWithCheckmark |-> TRUE,
   elapsedTimeThresholdMs |-> 3000]

\* lines 90-97: resolveStatusUpdateConfig
resolveStatusUpdateConfig(config) ==
  [f \in DOMAIN DEFAULT_CONFIG |->
     IF f \in DOMAIN config THEN config[f] ELSE DEFAULT_CONFIG[f]]

\* texts are sequences of tokens
Digit(d) == <<"0", "1", "2", "3", "4", "5", "6", "7", "8", "9">>[d + 1]

\* lines 99-104: formatElapsedTime, "M:SS"
formatElapsedTime(seconds) ==
  <<Digit(seconds \div 60), ":", Digit((seconds % 60) \div 10),
    Digit((seconds % 60) % 10)>>

\* lines 74-88 and 114-116: `${emoji} ${message}` of a phase, one token
PhaseLabel(phase) == <<phase>>

\* Array.prototype.join(" ") of at most two parts
JoinParts(a, b) ==
  IF a = <<>> THEN b ELSE IF b = <<>> THEN a ELSE a \o <<" ">> \o b

\* lines 106-125: formatStatusMessage
formatStatusMessage(phase, elapsedSeconds, config) ==
  LET label == IF config.showPhases THEN PhaseLabel(phase) ELSE <<>>
      elapsed == IF config.showElapsedTime
                    /\ elapsedSeconds * 1000 >= config.elapsedTimeThresholdMs
                 THEN <<"(">> \o formatElapsedTime(elapsedSeconds) \o <<")">>
                 ELSE <<>>
  IN IF JoinParts(label, elapsed) = <<>> THEN <<"Processing...">>
     ELSE JoinParts(label, elapsed)

\* a text shows an elapsed-time figure
ShowsElapsed(text) == \E i \in 1..Len(text) : text[i] = ":"

\* String.prototype.trimEnd
RECURSIVE trimEnd(_)
trimEnd(s) ==
  IF s # <<>> /\ s[Len(s)] = " " THEN trimEnd(SubSeq(s, 1, Len(s) - 1))
  ELSE s

\* line 208: `${finalText.trimEnd()} _(${formatElapsedTime(...)})_`
MarkFinal(finalText, seconds) ==
  trimEnd(finalText) \o <<" ", "_(">> \o formatElapsedTime(seconds) \o <<")_">>

\* Date.now(): any time not before the last one read
DateNow == {t \in Times : t >= now}

\* Math.floor((now - startedAt) / 1000), lines 205 and 243
ElapsedSeconds(t) == (t - state.startedAt) \div 1000

\* isEnabled without the mode test of line 148
IsEnabledIgnoringMode == scfg.enabled

\* lines 147-149: isEnabled
isEnabled == scfg.enabled /\ scfg.mode # "off"

\* lines 159-161 with the supportsEdit of each callback set (lines 329,
\* 344, agent-runner.ts 350, status-updates-integration.ts 200)
supportsEdit == callbacks \in {"editable", "blockReply"}

\* deleteStatus is given only to createEditableStatusCallbacks (line 330)
HasDeleteStatus == callbacks = "editable"

\* lines 267-277: startUpdateTimer
startUpdateTimer == updateTimer' = TRUE

\* lines 279-284: stopUpdateTimer
stopUpdateTimer == updateTimer' = FALSE

\* lines 239-261: sendUpdate up to the await of sendStatus; st is the state
\* the caller has set, t the value of Date.now()
sendUpdate(st, t) ==
  IF stopped
  THEN /\ state' = st
       /\ UNCHANGED <<now, inflight, sendCount, lastSend>>
  ELSE LET seconds == (t - st.startedAt) \div 1000
           text == formatStatusMessage(st.phase, seconds, scfg)
           edit == /\ scfg.mode = "edit"
                   /\ supportsEdit
                   /\ st.statusMessageId # NoId
       IN /\ now' = t
          /\ state' = [st EXCEPT !.elapsedSeconds = seconds]
          /\ inflight' = inflight \cup
               {[n |-> sendCount + 1, edit |-> edit,
                 handed |-> st.statusMessageId]}
          /\ sendCount' = sendCount + 1
          /\ lastSend' = [text |-> text, forPhase |-> st.phase,
                          edit |-> edit, handed |-> st.statusMessageId,
                          early |-> t - st.startedAt
                                      < scfg.elapsedTimeThresholdMs,
                          late |-> st.isComplete]

Call(op, arg, ret) ==
  /\ calls < MaxCalls
  /\ UNCHANGED <<failed, raised>>
  /\ calls' = calls + 1
  /\ lastCall' = [op |-> op, arg |-> arg, ret |-> ret,
                  late |-> stopped \/ state.isComplete]

\* lines 163-169: start() up to the await of sendUpdate
Start ==
  /\ startPc = 0
  /\ Call("start", Undefined, Undefined)
  /\ IF ~isEnabled \/ stopped
     THEN /\ startPc' = Started
          /\ UNCHANGED <<state, now, inflight, sendCount, lastSend>>
     ELSE /\ \E t \in DateNow : sendUpdate(state, t)
          /\ startPc' = sendCount + 1
  /\ UNCHANGED <<scfg, callbacks, updateTimer, stopped, pendingDelete,
                 posted, nextMessageId, deleteCount, firstComplete>>

\* the guard of line 178 without the isComplete test
SetPhaseIgnoredNoCompleteTest == ~isEnabled \/ stopped

\* line 178
SetPhaseIgnored == ~isEnabled \/ stopped \/ state.isComplete

\* lines 177-192: setPhase(phase) up to the await of sendUpdate
SetPhase(phase) ==
  /\ Call("setPhase", Undefined, Undefined)
  /\ IF SetPhaseIgnored \/ phase = state.phase
     THEN UNCHANGED <<state, now, inflight, sendCount, lastSend, updateTimer>>
     ELSE IF phase = "complete"
     THEN /\ state' = [state EXCEPT !.phase = phase, !.isComplete = TRUE]
          /\ stopUpdateTimer
          /\ UNCHANGED <<now, inflight, sendCount, lastSend>>
     ELSE /\ \E t \in DateNow :
               sendUpdate([state EXCEPT !.phase = phase], t)
          /\ UNCHANGED updateTimer
  /\ UNCHANGED <<scfg, callbacks, stopped, startPc, pendingDelete,
                 posted, nextMessageId, deleteCount, firstComplete>>

\* lines 270-276: the interval callback
TimerTick ==
  /\ updateTimer
  /\ Call("tick", Undefined, Undefined)
  /\ IF stopped \/ state.isComplete
     THEN /\ stopUpdateTimer
          /\ UNCHANGED <<state, now, inflight, sendCount, lastSend>>
     ELSE /\ \E t \in DateNow : sendUpdate(state, t)
          /\ UNCHANGED updateTimer
  /\ UNCHANGED <<scfg, callbacks, stopped, startPc, pendingDelete,
                 posted, nextMessageId, deleteCount, firstComplete>>

\* the sendStatus of the callback set posts a new message (lines 321-327,
\* 341-343, agent-runner.ts 330-342); the editable set edits when handed an id
Posts(c) ==
  /\ callbacks # "noop"
  /\ ~(callbacks = "editable" /\ c.handed # NoId)

\* what the awaited sendStatus can do: return an id, return undefined, reject
SendOutcomes(c) ==
  IF callbacks = "noop" THEN {"noid"}
  ELSE IF Posts(c) THEN {"id", "noid", "reject"}
  ELSE {"id", "reject"}

\* the rejection of sendStatus does not reach the catch of line 262
SendUpdateCatchesNothing(outcome) == FALSE

\* lines 248 and 262-264: the try/catch around the awaited sendStatus
SendUpdateCatches(outcome) == outcome = "reject"

\* lines 251-264: the awaited sendStatus settles; lines 172-174 when the
\* render was the one start() awaited
SendSettle(c, outcome) ==
  /\ c \in inflight
  /\ outcome \in SendOutcomes(c)
  /\ failed' = (failed \/ outcome = "reject")
  /\ raised' = (raised \/ (outcome = "reject" /\ ~SendUpdateCatches(outcome)))
  /\ inflight' = inflight \ {c}
  /\ LET returned == IF outcome # "id" THEN NoId
                     ELSE IF Posts(c) THEN nextMessageId ELSE c.handed
     IN state' = IF outcome = "reject" THEN state
                 ELSE IF c.edit
                 THEN [state EXCEPT !.statusMessageId = returned]
                 ELSE IF returned # NoId
                 THEN [state EXCEPT !.statusMessageId = returned]
                 ELSE state
  /\ IF Posts(c) /\ outcome # "reject"
     THEN posted' = posted + 1 /\ nextMessageId' = nextMessageId + 1
     ELSE UNCHANGED <<posted, nextMessageId>>
  /\ IF c.n = startPc
     THEN /\ startPc' = Started
          /\ IF scfg.showElapsedTime THEN startUpdateTimer
             ELSE UNCHANGED updateTimer
     ELSE UNCHANGED <<startPc, updateTimer>>
  /\ UNCHANGED <<scfg, callbacks, stopped, now, pendingDelete, sendCount,
                 deleteCount, lastSend, lastCall, calls, firstComplete>>

\* lines 214-220 and 230-236: deleteStatus is invoked and awaited
deleteStatus(by) ==
  /\ pendingDelete' = pendingDelete \cup
       {[n |-> deleteCount + 1, id |-> state.statusMessageId, by |-> by]}
  /\ deleteCount' = deleteCount + 1

\* what complete(finalText) returns (lines 195, 201, 208-210, 222); t is
\* the value of Date.now()
CompleteResult(finalText, t) ==
  IF stopped THEN Undefined
  ELSE IF ~isEnabled THEN finalText
  ELSE IF finalText # Undefined /\ scfg.markFinalWithCheckmark
  THEN MarkFinal(finalText, ElapsedSeconds(t))
  ELSE finalText

\* lines 194-223: complete(finalText)
complete(op, finalText) ==
  \E t \in DateNow :
  /\ Call(op, finalText, CompleteResult(finalText, t))
  /\ firstComplete' =
       IF firstComplete.done THEN [firstComplete EXCEPT !.again = TRUE]
       ELSE [done |-> TRUE, again |-> FALSE, arg |-> finalText,
             ret |-> CompleteResult(finalText, t), refused |-> stopped]
  /\ IF stopped
     THEN UNCHANGED <<state, now, updateTimer, stopped, pendingDelete,
                      deleteCount>>
     ELSE /\ stopUpdateTimer
          /\ stopped' = TRUE
          /\ IF ~isEnabled
             THEN /\ state' = [state EXCEPT !.isComplete = TRUE]
                  /\ UNCHANGED <<now, pendingDelete, deleteCount>>
             ELSE IF finalText # Undefined /\ scfg.markFinalWithCheckmark
             THEN /\ state' = [state EXCEPT
                                 !.isComplete = TRUE,
                                 !.elapsedSeconds = ElapsedSeconds(t)]
                  /\ now' = t
                  /\ UNCHANGED <<pendingDelete, deleteCount>>
             ELSE /\ state' = [state EXCEPT !.isComplete = TRUE]
                  /\ UNCHANGED now
                  /\ IF state.statusMessageId # NoId /\ HasDeleteStatus
                     THEN deleteStatus("complete")
                     ELSE UNCHANGED <<pendingDelete, deleteCount>>
  /\ UNCHANGED <<scfg, callbacks, inflight, startPc, posted,
                 nextMessageId, sendCount, lastSend>>

Complete(finalText) == complete("complete", finalText)

\* status-updates-integration.ts lines 56-77: createAgentStatusController
\* returns a controller unless config.enabled is falsy
createAgentStatusController == scfg.enabled

\* status-updates-integration.ts lines 172-185: completeStatusUpdate
completeStatusUpdate(finalText) ==
  IF createAgentStatusController
  THEN complete("complete", finalText)
  ELSE /\ Call("completeStatusUpdate", finalText, finalText)
       /\ UNCHANGED <<scfg, callbacks, state, updateTimer, stopped, now,
                      inflight, startPc, pendingDelete, posted,
                      nextMessageId, sendCount, deleteCount, lastSend,
                      firstComplete>>

\* the isComplete test of line 230 left out
CleanupDeletesAlways ==
  state.statusMessageId # NoId /\ HasDeleteStatus

\* line 230
CleanupDeletes ==
  state.statusMessageId # NoId /\ ~state.isComplete /\ HasDeleteStatus

\* lines 225-237: cleanup()
Cleanup ==
  /\ Call("cleanup", Undefined, Undefined)
  /\ stopUpdateTimer
  /\ stopped' = TRUE
  /\ IF CleanupDeletes THEN deleteStatus("cleanup")
     ELSE UNCHANGED <<pendingDelete, deleteCount>>
  /\ UNCHANGED <<scfg, callbacks, state, now, inflight, startPc, posted,
                 nextMessageId, sendCount, lastSend, firstComplete>>

\* lines 215-219 and 231-235: the try/catch around the awaited deleteStatus
DeleteCatches(outcome) == outcome = "reject"

\* the awaited deleteStatus resolves, or rejects and the catch logs it
\* (lines 217-219, 233-235)
DeleteSettle(d, outcome) ==
  /\ d \in pendingDelete
  /\ outcome \in {"ok", "reject"}
  /\ pendingDelete' = pendingDelete \ {d}
  /\ failed' = (failed \/ outcome = "reject")
  /\ raised' = (raised \/ (outcome = "reject" /\ ~DeleteCatches(outcome)))
  /\ UNCHANGED <<scfg, callbacks, state, updateTimer, stopped, now, inflight,
                 startPc, posted, nextMessageId, sendCount, deleteCount,
                 lastSend, lastCall, calls, firstComplete>>

NoSend ==
  [text |-> <<>>, forPhase |-> "sending_query",
   edit |-> FALSE, handed |-> NoId, early |-> TRUE, late |-> FALSE]

NoCall ==
  [op |-> "none", arg |-> Undefined, ret |-> Undefined,
   late |-> FALSE]

\* lines 135-145: the constructor
NewController ==
  /\ state = [phase |-> "sending_query", startedAt |-> 0,
              statusMessageId |-> NoId, elapsedSeconds |-> 0,
              isComplete |-> FALSE]
  /\ updateTimer = FALSE
  /\ stopped = FALSE
  /\ now = 0
  /\ inflight = {}
  /\ startPc = 0
  /\ pendingDelete = {}
  /\ posted = 0
  /\ nextMessageId = 1
  /\ sendCount = 0
  /\ deleteCount = 0
  /\ lastSend = NoSend
  /\ lastCall = NoCall
  /\ calls = 0
  /\ firstComplete = [done |-> FALSE, again |-> FALSE, arg |-> Undefined,
                      ret |-> Undefined, refused |-> FALSE]
  /\ failed = FALSE
  /\ raised = FALSE

\* no status controller is in play
StatusIdle ==
  /\ scfg = DEFAULT_CONFIG
  /\ callbacks = "noop"
  /\ NewController

\* Configurations: with status updates disabled the display options do
\* not matter and keep their defaults
StatusConfigs ==
  {resolveStatusUpdateConfig(c) :
     c \in [enabled : {FALSE}, mode : StatusModes]
            \cup [enabled : {TRUE}, mode : {"off"}]}
  \cup
  {resolveStatusUpdateConfig(c) :
     c \in [enabled : {TRUE}, mode : {"edit", "inline"},
            showPhases : BOOLEAN, showElapsedTime : BOOLEAN,
            markFinalWithCheckmark : BOOLEAN,
            elapsedTimeThresholdMs : {1000}]}

\* ===================== the exit paths of runReplyAgent ==================
\* agent-runner.ts lines 141-212 and 383-620: the block-reply pipeline, the
\* background tool tasks and the assembly of the payloads that are returned
MaxTasks == 2
MaxPayloads == 2

VARIABLES
  tin,               \* the parameters of the call
  tpc,               \* where the call is
  exit,              \* how the call ended
  stopCalls,         \* calls of blockReplyPipeline.stop()
  flushCalls,        \* calls of blockReplyPipeline.flush({ force: true })
  pendingToolTasks,  \* the tasks recorded in the pending set
  settledTasks,      \* the tasks that have settled
  payloadArray,      \* runResult.payloads
  autoCompactionCompleted,
  replyPayloads,
  finalPayloads,
  sameArray,         \* finalPayloads is the array object replyPayloads
  markedText,        \* what completeStatusUpdate returned
  returned,          \* the payloads the call returned
  unsettledAtEnd,    \* the recorded tasks not settled when the call returned
  incrementCalls     \* calls of incrementCompactionCount

turnVars == <<tin, tpc, exit, stopCalls, flushCalls, pendingToolTasks, settledTasks,
              payloadArray, autoCompactionCompleted, replyPayloads,
              finalPayloads, sameArray, markedText, returned,
              unsettledAtEnd, incrementCalls>>

NoText == <<>>

\* a payload of the agent: text only, media only, or a text that a
\* messaging tool has already sent
AgentPayload(n, kind) ==
  [src |-> "agent", n |-> n,
   text |-> IF kind = "media" THEN NoText ELSE <<"t", Digit(n)>>,
   sentByTool |-> kind = "sent"]

PayloadKinds == {"text", "media", "sent"}

AgentPayloadLists ==
  UNION {{[i \in 1..len |-> AgentPayload(i, kinds[i])] :
            kinds \in [1..len -> PayloadKinds]} : len \in 0..MaxPayloads}

\* line 578 and line 582: the notice and the hint
CompactionNotice ==
  [src |-> "notice", n |-> 0, text |-> <<"compaction">>, sentByTool |-> FALSE]
SessionHint ==
  [src |-> "hint", n |-> 0, text |-> <<"new session">>, sentByTool |-> FALSE]
UsageLine == <<"\n", "usage">>

\* buildReplyPayloads (line 480): payloads a messaging tool has sent already
\* are left out, the others keep their order
RECURSIVE buildReplyPayloads(_)
buildReplyPayloads(payloads) ==
  IF payloads = <<>> THEN <<>>
  ELSE IF Head(payloads).sentByTool THEN buildReplyPayloads(Tail(payloads))
  ELSE <<Head(payloads)>> \o buildReplyPayloads(Tail(payloads))

\* the index of the last payload with a text, 0 if there is none
LastTextIndex(payloads) ==
  IF \E i \in 1..Len(payloads) : payloads[i].text # NoText
  THEN CHOOSE i \in 1..Len(payloads) :
         /\ payloads[i].text # NoText
         /\ \A j \in (i + 1)..Len(payloads) : payloads[j].text = NoText
  ELSE 0

\* appendUsageLine (line 585): a new array; the line is added to the text
\* of the last payload that has one, or becomes a payload of its own
appendUsageLine(payloads, line) ==
  LET i == LastTextIndex(payloads)
  IN IF i = 0
     THEN Append(payloads, [src |-> "usage", n |-> 0, text |-> line,
                            sentByTool |-> FALSE])
     ELSE [payloads EXCEPT ![i].text = @ \o line]

\* lines 607-620: the finally block
Finally ==
  /\ stopCalls' = stopCalls + (IF tin.blockReplyPipeline THEN 1 ELSE 0)
  /\ UNCHANGED flushCalls

EndCall(how, payloads) ==
  /\ exit' = how
  /\ returned' = payloads
  /\ unsettledAtEnd' = pendingToolTasks \ settledTasks

\* lines 166-212: the pipeline is created; a steered or queued message
\* returns before the try block
TurnGate ==
  /\ tpc = "start"
  /\ UNCHANGED incrementCalls
  /\ IF tin.gate = "run"
     THEN /\ tpc' = "exec"
          /\ UNCHANGED <<exit, returned, unsettledAtEnd>>
     ELSE /\ tpc' = "returned"
          /\ EndCall(tin.gate, <<>>)
  /\ UNCHANGED <<tin, stopCalls, flushCalls, pendingToolTasks, settledTasks,
                 payloadArray, autoCompactionCompleted, replyPayloads,
                 finalPayloads, sameArray, markedText>>

\* during the agent run a tool result starts a background task and records
\* it in pendingToolTasks (line 398)
ToolTaskStart ==
  /\ tpc = "exec"
  /\ UNCHANGED incrementCalls
  /\ Cardinality(pendingToolTasks) < MaxTasks
  /\ pendingToolTasks' = pendingToolTasks \cup
                           {Cardinality(pendingToolTasks) + 1}
  /\ UNCHANGED <<tin, tpc, exit, stopCalls, flushCalls, settledTasks, payloadArray,
                 autoCompactionCompleted, replyPayloads, finalPayloads,
                 sameArray, markedText, returned, unsettledAtEnd>>

\* a background task settles
ToolTaskSettle(t) ==
  /\ t \in pendingToolTasks \ settledTasks
  /\ UNCHANGED incrementCalls
  /\ settledTasks' = settledTasks \cup {t}
  /\ UNCHANGED <<tin, tpc, exit, stopCalls, flushCalls, pendingToolTasks, payloadArray,
                 autoCompactionCompleted, replyPayloads, finalPayloads,
                 sameArray, markedText, returned, unsettledAtEnd>>

\* lines 385-412: runAgentTurnWithFallback gives a final outcome
AgentFinal(payloads) ==
  /\ tpc = "exec"
  /\ UNCHANGED incrementCalls
  /\ tpc' = "returned"
  /\ EndCall("final", payloads)
  /\ Finally
  /\ UNCHANGED <<tin, pendingToolTasks, settledTasks, payloadArray,
                 autoCompactionCompleted, replyPayloads, finalPayloads,
                 sameArray, markedText>>

\* lines 385-443: runAgentTurnWithFallback gives a run result; up to the
\* await of the forced flush
AgentSuccess(payloads, compacted) ==
  /\ tpc = "exec"
  /\ UNCHANGED incrementCalls
  /\ payloadArray' = payloads
  /\ autoCompactionCompleted' = compacted
  /\ flushCalls' = flushCalls + (IF tin.blockReplyPipeline THEN 1 ELSE 0)
  /\ tpc' = IF tin.blockReplyPipeline THEN "flush"
            ELSE IF pendingToolTasks # {} THEN "tasks" ELSE "assemble"
  /\ UNCHANGED <<tin, exit, stopCalls, pendingToolTasks, settledTasks,
                 replyPayloads, finalPayloads, sameArray, markedText,
                 returned, unsettledAtEnd>>

\* lines 443-446: the forced flush is done, stop() is called
FlushDone ==
  /\ tpc = "flush"
  /\ UNCHANGED incrementCalls
  /\ stopCalls' = stopCalls + 1
  /\ UNCHANGED flushCalls
  /\ tpc' = IF pendingToolTasks # {} THEN "tasks" ELSE "assemble"
  /\ UNCHANGED <<tin, exit, pendingToolTasks, settledTasks, payloadArray,
                 autoCompactionCompleted, replyPayloads, finalPayloads,
                 sameArray, markedText, returned, unsettledAtEnd>>

\* line 447: Promise.allSettled(pendingToolTasks) resolves
TasksSettled ==
  /\ tpc = "tasks"
  /\ UNCHANGED incrementCalls
  /\ pendingToolTasks \subseteq settledTasks
  /\ tpc' = "assemble"
  /\ UNCHANGED <<tin, exit, stopCalls, flushCalls, pendingToolTasks, settledTasks,
                 payloadArray, autoCompactionCompleted, replyPayloads,
                 finalPayloads, sameArray, markedText, returned,
                 unsettledAtEnd>>

\* the hint of line 582 without the verbose test of line 581
FinalPayloadsHintAlways(replies) ==
  LET withNotice == IF autoCompactionCompleted /\ tin.verboseEnabled
                    THEN <<CompactionNotice>> \o replies ELSE replies
      withHint == IF tin.activeIsNewSession
                  THEN <<SessionHint>> \o withNotice ELSE withNotice
  IN IF tin.responseUsageLine THEN appendUsageLine(withHint, UsageLine)
     ELSE withHint

\* lines 566-586: the hint, the notice and the usage line
FinalPayloads(replies) ==
  LET withNotice == IF autoCompactionCompleted /\ tin.verboseEnabled
                    THEN <<CompactionNotice>> \o replies ELSE replies
      withHint == IF tin.verboseEnabled /\ tin.activeIsNewSession
                  THEN <<SessionHint>> \o withNotice ELSE withNotice
  IN IF tin.responseUsageLine THEN appendUsageLine(withHint, UsageLine)
     ELSE withHint

\* finalPayloads is still the array replyPayloads (line 567) when neither
\* line 578, line 582 nor line 585 has assigned a new one
SameArray ==
  /\ ~(autoCompactionCompleted /\ tin.verboseEnabled)
  /\ ~(tin.verboseEnabled /\ tin.activeIsNewSession)
  /\ ~tin.responseUsageLine

\* lines 477-586: the payloads are built, up to the await of
\* completeStatusUpdate; with nothing to send the call returns
Assemble ==
  /\ tpc = "assemble"
  /\ LET replies == buildReplyPayloads(payloadArray)
     IN IF replies = <<>>
        THEN /\ tpc' = "returned"
             /\ EndCall("empty", <<>>)
             /\ Finally
             /\ UNCHANGED <<replyPayloads, finalPayloads, sameArray,
                            incrementCalls>>
        ELSE /\ tpc' = "complete"
             /\ replyPayloads' = replies
             /\ finalPayloads' = FinalPayloads(replies)
             /\ sameArray' = SameArray
             /\ incrementCalls' = incrementCalls +
                  (IF autoCompactionCompleted THEN 1 ELSE 0)
             /\ UNCHANGED <<exit, returned, unsettledAtEnd, stopCalls, flushCalls>>
  /\ UNCHANGED <<tin, pendingToolTasks, settledTasks, payloadArray,
                 autoCompactionCompleted, markedText>>

\* line 596: the last element of the array replyPayloads is replaced
MarkLastPayload(marked) ==
  /\ replyPayloads' = [replyPayloads EXCEPT ![Len(replyPayloads)].text = marked]
  /\ finalPayloads' = IF sameArray THEN replyPayloads' ELSE finalPayloads

\* lines 588-620: completeStatusUpdate, the return and the finally block
TurnReturns ==
  /\ tpc = "complete"
  /\ UNCHANGED incrementCalls
  /\ LET lastPayload == replyPayloads[Len(replyPayloads)]
         marked == IF createAgentStatusController
                   THEN CompleteResult(lastPayload.text, now)
                   ELSE lastPayload.text
     IN IF lastPayload.text # NoText
        THEN /\ markedText' = marked
             /\ IF marked # Undefined THEN MarkLastPayload(marked)
                ELSE UNCHANGED <<replyPayloads, finalPayloads>>
        ELSE UNCHANGED <<markedText, replyPayloads, finalPayloads>>
  /\ tpc' = "returned"
  /\ EndCall("normal", finalPayloads')
  /\ Finally
  /\ UNCHANGED <<tin, pendingToolTasks, settledTasks, payloadArray,
                 autoCompactionCompleted, sameArray>>

\* an await inside the try block rejects (lines 385, 429, 443, 463, 570):
\* the finally block runs and the call rejects
TurnThrows ==
  /\ tpc \in {"exec", "flush", "assemble"}
  /\ UNCHANGED incrementCalls
  /\ tpc' = "threw"
  /\ exit' = "exception"
  /\ Finally
  /\ UNCHANGED <<tin, pendingToolTasks, settledTasks, payloadArray,
                 autoCompactionCompleted, replyPayloads, finalPayloads,
                 sameArray, markedText, returned, unsettledAtEnd>>

\* no call is in progress
TurnIdle ==
  /\ tin = [gate |-> "run", blockReplyPipeline |-> FALSE,
            verboseEnabled |-> FALSE, activeIsNewSession |-> FALSE,
            responseUsageLine |-> FALSE]
  /\ tpc = "off"
  /\ exit = "none"
  /\ stopCalls = 0
  /\ flushCalls = 0
  /\ pendingToolTasks = {}
  /\ settledTasks = {}
  /\ payloadArray = <<>>
  /\ autoCompactionCompleted = FALSE
  /\ replyPayloads = <<>>
  /\ finalPayloads = <<>>
  /\ sameArray = TRUE
  /\ markedText = Undefined
  /\ returned = <<>>
  /\ unsettledAtEnd = {}
  /\ incrementCalls = 0

\* ===================== the block-reply pipeline =========================
\* createBlockReplyPipeline (agent-runner.ts lines 157-174): push, flush and
\* stop, with the coalescing of the fragments of a streamed reply
MaxFrags == 3
MaxChars == 3       \* blockReplyChunking.maxChars

VARIABLES
  buffer,       \* the fragments accumulated and not yet sent
  emitted,      \* the blocks handed to onBlockReply, in order
  flushTimer,   \* a flush timer is pending
  pipeStopped,  \* stop() has been called
  pushed,       \* number of fragments pushed
  forced        \* number of blocks sent when the last forced flush returned

pipeVars == <<buffer, emitted, flushTimer, pipeStopped, pushed, forced>>

\* a fragment of streamed output; the chunker gives none longer than
\* maxChars; brk: it ends at a natural break
Fragments(n) ==
  [id : {n}, size : 1..MaxChars, brk : BOOLEAN]

RECURSIVE SizeOf(_)
SizeOf(frags) ==
  IF frags = <<>> THEN 0 ELSE Head(frags).size + SizeOf(Tail(frags))

\* a flush that leaves the sent content in the buffer
SendBlockKeepsBuffer(frags, by) ==
  /\ emitted' = Append(emitted, [frags |-> frags, by |-> by])
  /\ buffer' = frags

\* a flush: the buffered content goes to onBlockReply as one block and the
\* buffer is emptied
SendBlock(frags, by) ==
  /\ emitted' = Append(emitted, [frags |-> frags, by |-> by])
  /\ buffer' = <<>>

\* push(fragment): the fragment is accumulated; the buffer is flushed first
\* when the fragment would take it over the maximum, and after when the
\* maximum is reached or a natural break is seen
Push(f) ==
  /\ ~pipeStopped
  /\ pushed < MaxFrags
  /\ f \in Fragments(pushed + 1)
  /\ pushed' = pushed + 1
  /\ LET over == buffer # <<>> /\ SizeOf(buffer) + f.size > MaxChars
         first == IF over THEN <<[frags |-> buffer, by |-> "push"]>>
                  ELSE <<>>
         acc == IF over THEN <<f>> ELSE Append(buffer, f)
         flushNow == SizeOf(acc) >= MaxChars \/ f.brk
     IN /\ emitted' = emitted \o first \o
                        (IF flushNow THEN <<[frags |-> acc, by |-> "push"]>>
                         ELSE <<>>)
        /\ buffer' = IF flushNow THEN <<>> ELSE acc
        /\ flushTimer' = ~flushNow
  /\ UNCHANGED <<pipeStopped, forced>>

\* the flush timeout elapses with pending content
FlushTimeout ==
  /\ flushTimer
  /\ flushTimer' = FALSE
  /\ IF buffer # <<>> THEN SendBlock(buffer, "timer")
     ELSE UNCHANGED <<buffer, emitted>>
  /\ UNCHANGED <<pipeStopped, pushed, forced>>

\* flush({force: true}) (agent-runner.ts line 443)
FlushForce ==
  /\ IF buffer # <<>> THEN SendBlock(buffer, "force")
     ELSE UNCHANGED <<buffer, emitted>>
  /\ flushTimer' = FALSE
  /\ forced' = Len(emitted')
  /\ UNCHANGED <<pipeStopped, pushed>>

\* stop() (agent-runner.ts lines 444 and 608): the pending timer is cancelled
PipeStop ==
  /\ flushTimer' = FALSE
  /\ pipeStopped' = TRUE
  /\ UNCHANGED <<buffer, emitted, pushed, forced>>

\* createBlockReplyPipeline (agent-runner.ts lines 166-174)
NewPipeline ==
  /\ buffer = <<>>
  /\ emitted = <<>>
  /\ flushTimer = FALSE
  /\ pipeStopped = FALSE
  /\ pushed = 0
  /\ forced = 0

\* ===================== deliverReplies (telegram) ========================
\* src/telegram/bot/delivery.ts lines 28-251 with the sent-message cache of
\* src/unnamed/part_002
MaxReplies == 3

VARIABLES
  replyToMode,   \* "off", "first" or "all"
  replies,       \* the payloads of the call
  dpos,          \* index of the payload the loop is at
  hasReplied,
  sends,         \* the messages sent or edited, in order
  lastSent,      \* getLastSentMessage(chatId)
  nextMsgId,     \* the id the chat gives the next message
  errorLogged,   \* payloads runtime.error was called for
  verboseLogged, \* payloads logVerbose was called for
  lastEdit,      \* the outcome of the edit tried for the last payload
  dresult        \* "running", "done", "threw"

delivVars == <<replyToMode, replies, dpos, hasReplied, sends, lastSent,
               nextMsgId, errorLogged, verboseLogged, lastEdit, dresult>>

TextReply ==
  [text |-> TRUE, chunks |-> 1, media |-> FALSE, followUp |-> FALSE,
   audioAsVoice |-> FALSE, isStatusMessage |-> FALSE, replyToId |-> TRUE]

\* the payloads of a call: a text of one chunk, with or without a reply-to
\* id; a text of two chunks; a media item with a caption; a media item with
\* a caption too long for it; a payload with nothing; a payload with only
\* the audio-as-voice flag; a status message
ReplyShapes ==
  {TextReply,
   [TextReply EXCEPT !.replyToId = FALSE],
   [TextReply EXCEPT !.chunks = 2],
   [TextReply EXCEPT !.media = TRUE],
   [TextReply EXCEPT !.media = TRUE, !.followUp = TRUE],
   [TextReply EXCEPT !.text = FALSE],
   [TextReply EXCEPT !.text = FALSE, !.audioAsVoice = TRUE],
   [TextReply EXCEPT !.isStatusMessage = TRUE]}

NoLastSent == [messageId |-> NoId, isStatus |-> FALSE, recent |-> FALSE]

\* line 71: the payload has neither text nor media
Dropped(reply) == ~reply.text /\ ~reply.media

\* runtime.error is called for every dropped payload
DropLogsErrorAlways(reply) == TRUE

\* lines 72-76: a dropped payload is logged as an error unless it carries
\* the audio-as-voice flag
DropLogsError(reply) == ~reply.audioAsVoice

\* line 79
ReplyToId(reply) == replyToMode # "off" /\ reply.replyToId

\* lines 88-90 and 94
ShouldEdit(reply) ==
  /\ ~reply.media
  /\ lastSent.isStatus /\ lastSent.messageId # NoId /\ lastSent.recent
  /\ reply.text

\* sentMessageId is the edited id whatever the edit did
SentMessageIdEditAlways(reply, editOutcome) ==
  IF ShouldEdit(reply) THEN lastSent.messageId ELSE NoId

\* lines 92-112: sentMessageId after the edit was tried
SentMessageIdAfterEdit(reply, editOutcome) ==
  IF ShouldEdit(reply) /\ editOutcome = "ok" THEN lastSent.messageId
  ELSE NoId

\* the sends the loop body makes for a payload, in order (lines 114-145 and
\* 158-248)
SendPlan(reply, editOutcome) ==
  IF Dropped(reply) THEN <<>>
  ELSE IF reply.media
  THEN <<"media">> \o (IF reply.followUp
                       THEN [k \in 1..reply.chunks |-> "followup"]
                       ELSE <<>>)
  ELSE IF SentMessageIdAfterEdit(reply, editOutcome) # NoId THEN <<>>
  ELSE IF reply.isStatusMessage THEN <<"status">>
  ELSE [k \in 1..reply.chunks |-> "text"]

\* hasReplied is never set
HasRepliedNever(reply, before, sent) == before

\* lines 141-143, 226-228 and 243-245: hasReplied after `sent` sends of
\* the payload have returned
HasRepliedAfter(reply, before, sent) ==
  before \/ (ReplyToId(reply) /\ sent > 0)

\* lines 133-134, 179-180 and 234-235: the reply-to target of send k of
\* the payload; the status send of line 118 carries none
ReplyToMessageId(reply, kind, k) ==
  /\ kind # "status"
  /\ ReplyToId(reply)
  /\ (replyToMode = "all" \/ ~HasRepliedAfter(reply, hasReplied, k - 1))

\* lines 69-250: the loop body for one payload; failAt is the send that
\* rejects, 0 when every send succeeds
DeliverReply(editOutcome, failAt) ==
  /\ dresult = "running"
  /\ LET reply == replies[dpos]
         plan == SendPlan(reply, editOutcome)
         done == IF failAt = 0 THEN Len(plan) ELSE failAt - 1
         editId == SentMessageIdAfterEdit(reply, editOutcome)
         new == [k \in 1..done |->
                   [p |-> dpos, kind |-> plan[k],
                    replyTo |-> ReplyToMessageId(reply, plan[k], k),
                    id |-> nextMsgId + k - 1]]
         sentMessageId == IF editId # NoId THEN editId
                          ELSE IF done > 0 THEN nextMsgId + done - 1
                          ELSE NoId
     IN /\ editOutcome \in (IF ~Dropped(reply) /\ ShouldEdit(reply)
                            THEN {"ok", "fail"} ELSE {"none"})
        /\ failAt \in 0..Len(plan)
        /\ lastEdit' = editOutcome
        /\ sends' = sends
                    \o (IF editId # NoId
                        THEN <<[p |-> dpos, kind |-> "edit",
                                replyTo |-> FALSE, id |-> editId]>>
                        ELSE <<>>)
                    \o new
        /\ nextMsgId' = nextMsgId + done
        /\ hasReplied' =
             IF Len(plan) > 0 /\ plan[1] # "status"
             THEN HasRepliedAfter(reply, hasReplied, done)
             ELSE hasReplied
        /\ errorLogged' = IF Dropped(reply) /\ DropLogsError(reply)
                          THEN errorLogged \cup {dpos} ELSE errorLogged
        /\ verboseLogged' = IF Dropped(reply) /\ ~DropLogsError(reply)
                            THEN verboseLogged \cup {dpos} ELSE verboseLogged
        /\ lastSent' = IF /\ ~Dropped(reply) /\ ~reply.media /\ failAt = 0
                          /\ sentMessageId # NoId
                       THEN [messageId |-> sentMessageId,
                             isStatus |-> reply.isStatusMessage,
                             recent |-> TRUE]
                       ELSE lastSent
        /\ dresult' = IF failAt # 0 THEN "threw"
                      ELSE IF dpos = Len(replies) THEN "done"
                      ELSE "running"
        /\ dpos' = IF failAt # 0 THEN dpos ELSE dpos + 1
  /\ UNCHANGED <<replyToMode, replies>>

\* no delivery is in progress
DelivIdle ==
  /\ replyToMode = "off"
  /\ replies = <<>>
  /\ dpos = 1
  /\ hasReplied = FALSE
  /\ sends = <<>>
  /\ lastSent = NoLastSent
  /\ nextMsgId = 1
  /\ errorLogged = {}
  /\ verboseLogged = {}
  /\ lastEdit = "none"
  /\ dresult = "done"

\* ============== deliverReplies: the media items of one reply =============
\* src/telegram/bot/delivery.ts lines 153-249, one step per await of the
\* loop over mediaList (DeliverReply above takes the loop in one step)
MaxMedia == 2

VARIABLES
  mediaList,         \* number of media items of the reply
  wantsVoice,        \* reply.audioAsVoice === true
  onVoiceRecording,  \* the caller passed the callback
  mpos,              \* index of the media item the loop is at
  mpc,               \* "load", "recording", "send", "done", "threw"
  media,             \* the content type loadWebMedia returned for the item
  events             \* the callbacks and sends made, in order

voiceVars == <<mediaList, wantsVoice, onVoiceRecording, mpos, mpc, media,
               events>>

ContentTypes == {"image/png", "audio/ogg", "audio/mpeg"}

\* line 161
mediaKindFromMime(contentType) ==
  IF contentType = "image/png" THEN "image" ELSE "audio"

\* lines 202-207, resolveTelegramVoiceSend: a voice note is sent when the
\* reply asks for one and the file is in a format a voice note accepts
UseVoice(contentType) == wantsVoice /\ contentType = "audio/ogg"

\* the callback is awaited for every audio item
AwaitsVoiceRecordingAnyAudio(contentType) ==
  mediaKindFromMime(contentType) = "audio"

\* lines 201-211: the callback is awaited for an audio item sent as a voice
\* note
AwaitsVoiceRecording(contentType) ==
  mediaKindFromMime(contentType) = "audio" /\ UseVoice(contentType)

Event(ev) == [ev |-> ev, item |-> mpos]

\* line 160: loadWebMedia resolves; lines 161-208 up to the next await
LoadMedia(contentType) ==
  /\ mpc = "load"
  /\ media' = contentType
  /\ IF AwaitsVoiceRecording(contentType)
     THEN IF onVoiceRecording
          THEN /\ mpc' = "recording"
               /\ events' = Append(events, Event("recordVoice"))
          ELSE mpc' = "send" /\ UNCHANGED events
     ELSE mpc' = "send" /\ UNCHANGED events
  /\ UNCHANGED <<mediaList, wantsVoice, onVoiceRecording, mpos>>

\* line 160: loadWebMedia rejects
LoadMediaFails ==
  /\ mpc = "load"
  /\ mpc' = "threw"
  /\ UNCHANGED <<mediaList, wantsVoice, onVoiceRecording, mpos, media,
                 events>>

\* line 211: the promise of onVoiceRecording settles
VoiceRecordingSettles(ok) ==
  /\ mpc = "recording"
  /\ events' = Append(events, Event(IF ok THEN "recordVoiceDone"
                                    ELSE "recordVoiceFailed"))
  /\ mpc' = IF ok THEN "send" ELSE "threw"
  /\ UNCHANGED <<mediaList, wantsVoice, onVoiceRecording, mpos, media>>

\* lines 189-225: which send of bot.api the item goes to
SendMethod(contentType) ==
  IF mediaKindFromMime(contentType) = "image" THEN "sendPhoto"
  ELSE IF UseVoice(contentType) THEN "sendVoice"
  ELSE "sendAudio"

\* lines 189-228: the send is called and settles; the loop goes on to the
\* next item
SendMedia(ok) ==
  /\ mpc = "send"
  /\ events' = Append(events, Event(SendMethod(media)))
  /\ mpc' = IF ~ok THEN "threw"
            ELSE IF mpos = mediaList THEN "done" ELSE "load"
  /\ mpos' = IF ok /\ mpos < mediaList THEN mpos + 1 ELSE mpos
  /\ UNCHANGED <<mediaList, wantsVoice, onVoiceRecording, media>>

\* no reply with media is being delivered
VoiceIdle ==
  /\ mediaList = 0
  /\ wantsVoice = FALSE
  /\ onVoiceRecording = FALSE
  /\ mpos = 1
  /\ mpc = "done"
  /\ media = "image/png"
  /\ events = <<>>

\* ============== the status run context of runReplyAgent =================
\* status-updates-integration.ts lines 82-193 and agent-runner.ts lines
\* 353-380 and 588-620: the controller is created and started, agent events
\* drive its phase, the finally block unsubscribes and cleans up

VARIABLES
  currentPhase,   \* ctx.currentPhase
  listening,      \* the listener of onAgentEvent is registered
  runPc,          \* "off", "create", "exec", "completed", "exited"
  removeCalls,    \* calls of removeEventListener()
  cleanupCalls    \* calls of cleanupStatusUpdate that reached cleanup()

ctxVars == <<currentPhase, listening, runPc, removeCalls, cleanupCalls>>

NoPhase == "none"

\* agent events: stream and data.phase; own: evt.runId === runId
AgentEvents ==
  [stream : {"lifecycle", "tool", "thinking", "reasoning", "message",
             "compaction"},
   phase : {"start", "end", "update"},
   own : {TRUE}]
  \cup {[stream |-> "lifecycle", phase |-> "end", own |-> FALSE]}

\* a tool event of any phase maps to processing_tools
MapToolAnyPhase(event) ==
  IF event.stream = "lifecycle" /\ event.phase = "start"
  THEN "sending_query"
  ELSE IF event.stream = "lifecycle" /\ event.phase = "end" THEN "complete"
  ELSE IF event.stream = "tool" THEN "processing_tools"
  ELSE IF event.stream \in {"thinking", "reasoning"}
  THEN "receiving_reasoning"
  ELSE IF event.stream = "message" /\ event.phase = "start"
  THEN "generating_response"
  ELSE NoPhase

\* status-updates-integration.ts lines 82-107: mapAgentEventToPhase
mapAgentEventToPhase(event) ==
  IF event.stream = "lifecycle" /\ event.phase = "start"
  THEN "sending_query"
  ELSE IF event.stream = "lifecycle" /\ event.phase = "end" THEN "complete"
  ELSE IF event.stream = "tool" /\ event.phase = "start"
  THEN "processing_tools"
  ELSE IF event.stream \in {"thinking", "reasoning"}
  THEN "receiving_reasoning"
  ELSE IF event.stream = "message" /\ event.phase = "start"
  THEN "generating_response"
  ELSE NoPhase

\* agent-runner.ts lines 353-380: createAgentStatusController,
\* createStatusUpdateRunContext (which calls start()) and the subscription
RunCreate ==
  /\ runPc = "create"
  /\ runPc' = "exec"
  /\ listening' = createAgentStatusController
  /\ IF createAgentStatusController THEN Start ELSE UNCHANGED statusVars
  /\ UNCHANGED <<currentPhase, removeCalls, cleanupCalls>>

\* status-updates-integration.ts lines 148-167: handleAgentEventForStatus
\* up to the await inside setPhase
handleAgentEventForStatus(event) ==
  LET phase == mapAgentEventToPhase(event)
  IN IF phase # NoPhase /\ phase # currentPhase
     THEN /\ currentPhase' = phase
          /\ SetPhase(phase)
     ELSE UNCHANGED <<currentPhase, statusVars>>

\* an agent event is emitted; agent-runner.ts lines 370-379: the listener
\* hands the events of this run to handleAgentEventForStatus
AgentEvent(event) ==
  /\ runPc \in {"exec", "completed", "exited"}
  /\ IF listening /\ event.own
     THEN handleAgentEventForStatus(event)
     ELSE UNCHANGED <<currentPhase, statusVars>>
  /\ UNCHANGED <<listening, runPc, removeCalls, cleanupCalls>>

\* agent-runner.ts lines 588-599: the last payload has a text and
\* completeStatusUpdate is awaited
RunComplete ==
  /\ runPc = "exec"
  /\ runPc' = "completed"
  /\ completeStatusUpdate(Hi)
  /\ UNCHANGED <<currentPhase, listening, removeCalls, cleanupCalls>>

\* agent-runner.ts lines 607-620: the finally block, on every path out of
\* the try block
RunFinally ==
  /\ runPc \in {"exec", "completed"}
  /\ runPc' = "exited"
  /\ listening' = FALSE
  /\ removeCalls' = removeCalls + (IF listening THEN 1 ELSE 0)
  /\ IF createAgentStatusController
     THEN Cleanup /\ cleanupCalls' = cleanupCalls + 1
     ELSE UNCHANGED <<statusVars, cleanupCalls>>
  /\ UNCHANGED currentPhase

\* status-updates-integration.ts lines 126-130: the context as created
NewRunContext ==
  /\ currentPhase = "sending_query"
  /\ listening = FALSE
  /\ removeCalls = 0
  /\ cleanupCalls = 0

\* no run is in progress
CtxIdle == NewRunContext /\ runPc = "off"

\* ============== telegram hourglass status messages =====================
\* src/telegram/outbound-status.ts: the last hourglass message of each
\* target, deleted before the next outbound message
MaxHourglass == 3

VARIABLES
  lastHourglassByTarget,  \* the map: target key -> message id, 0 for none
  deleting,               \* deleteMessage calls awaiting their result
  deleteIssued,           \* message id -> deleteMessage calls made for it
  nextHourglassId,        \* the id of the next hourglass message sent
  hourglassRaised         \* deletePriorTelegramHourglass has rejected

hourVars == <<lastHourglassByTarget, deleting, deleteIssued,
              nextHourglassId, hourglassRaised>>

\* buildTelegramHourglassKey: a chat without and with a message thread
Targets == {"c1|", "c1|7"}

\* the entry of the key stays in the map while the delete is awaited
PriorKept(map, key) == map

\* line 32: lastHourglassByTarget.delete(params.key), before the await
PriorCleared(map, key) == [map EXCEPT ![key] = 0]

\* lines 45-50: trackTelegramHourglass for a message just sent, or for an
\* id that is not a positive number
trackTelegramHourglass(key, messageId) ==
  /\ IF messageId <= 0
     THEN UNCHANGED <<lastHourglassByTarget, nextHourglassId>>
     ELSE /\ messageId = nextHourglassId
          /\ nextHourglassId <= MaxHourglass
          /\ lastHourglassByTarget' =
               [lastHourglassByTarget EXCEPT ![key] = messageId]
          /\ nextHourglassId' = nextHourglassId + 1
  /\ UNCHANGED <<deleting, deleteIssued, hourglassRaised>>

\* lines 21-37: deletePriorTelegramHourglass up to the await of
\* deleteMessage
deletePriorTelegramHourglass(key) ==
  LET prior == lastHourglassByTarget[key]
  IN /\ Cardinality(deleting) < MaxHourglass
     /\ IF prior = 0
        THEN UNCHANGED <<lastHourglassByTarget, deleting, deleteIssued>>
        ELSE /\ lastHourglassByTarget' =
                  PriorCleared(lastHourglassByTarget, key)
             /\ deleting' = deleting \cup
                  {[key |-> key, id |-> prior, n |-> deleteIssued[prior] + 1]}
             /\ deleteIssued' = [deleteIssued EXCEPT ![prior] = @ + 1]
     /\ UNCHANGED <<nextHourglassId, hourglassRaised>>

\* lines 33-42: the try/catch around the awaited deleteMessage; whether
\* its rejection leaves the function
DeleteRejectionCaught(ok) == FALSE

\* lines 37-43: the awaited deleteMessage settles
HourglassDeleteSettles(d, ok) ==
  /\ d \in deleting
  /\ deleting' = deleting \ {d}
  /\ hourglassRaised' = (hourglassRaised \/ DeleteRejectionCaught(ok))
  /\ UNCHANGED <<lastHourglassByTarget, deleteIssued, nextHourglassId>>

\* lines 52-54: clearTelegramHourglass
clearTelegramHourglass(key) ==
  /\ lastHourglassByTarget[key] # 0
  /\ lastHourglassByTarget' = [lastHourglassByTarget EXCEPT ![key] = 0]
  /\ UNCHANGED <<deleting, deleteIssued, nextHourglassId, hourglassRaised>>

\* line 5: the module as loaded
HourIdle ==
  /\ lastHourglassByTarget = [k \in Targets |-> 0]
  /\ deleting = {}
  /\ deleteIssued = [i \in 1..(MaxHourglass + 1) |-> 0]
  /\ nextHourglassId = 1
  /\ hourglassRaised = FALSE

\* ============== an inbound message during a running turn ===============
\* src/auto-reply/reply/agent-runner.ts lines 69-72, 115-116, 176-212: the
\* caller hands runReplyAgent the session entry it read; the bump of the
\* steer and enqueue paths writes that entry back
VARIABLES
  inbound       \* the inbound message: its position, the sessionEntry
                \* parameter, the path it took, the updatedAt captured and
                \* the number of entry objects there were when it was read

inVars == <<inbound>>

NoInbound ==
  [pc |-> "none", entry |-> NoObj, path |-> "none", updatedAt |-> 0,
   seen |-> 0]

\* lines 196 and 176-178: a turn of the key is executing
TurnActive == rpc \in {"exec", "reset_persist", "intro_persist"}

\* lines 69-72, 115: the sessionEntry the call was given is the entry the
\* caller read from the store, while a turn of the key executes
InboundRead ==
  /\ inbound.pc = "none"
  /\ TurnActive
  /\ inbound' = [inbound EXCEPT !.pc = "read", !.entry = CallerEntry,
                                !.seen = Len(heap)]
  /\ UNCHANGED sessVars

\* lines 179 and 198: activeSessionEntry && activeSessionStore && sessionKey
InboundCanBump == inbound.entry # NoObj /\ rcfg.hasStore /\ rcfg.hasKey

\* lines 176-185 and 196-204: the message is steered or enqueued, the entry
\* it was given is stamped and stored under the key
InboundBump(via) ==
  /\ inbound.pc = "read"
  /\ TurnActive
  /\ IF InboundCanBump
     THEN /\ heap' = [heap EXCEPT ![inbound.entry].updatedAt = clock + 1]
          /\ memStore' = [memStore EXCEPT ![SK] = inbound.entry]
          /\ clock' = clock + 1
          /\ inbound' = [inbound EXCEPT
                           !.pc = IF rcfg.hasPath THEN "persist"
                                  ELSE "returned",
                           !.path = via, !.updatedAt = clock + 1]
          /\ UNCHANGED disk
     ELSE /\ inbound' = [inbound EXCEPT !.pc = "returned", !.path = via]
          /\ UNCHANGED sessVars

\* lines 184-192 and 203-211: updateSessionStoreEntry resolves
InboundPersistOk ==
  /\ inbound.pc = "persist"
  /\ disk' = [disk EXCEPT
                ![SK] = updateSessionStoreEntry(@, [updatedAt |->
                                                      inbound.updatedAt])]
  /\ inbound' = [inbound EXCEPT !.pc = "returned"]
  /\ UNCHANGED <<heap, memStore, clock>>

\* lines 184 and 203: updateSessionStoreEntry rejects, outside any try
InboundPersistFail ==
  /\ inbound.pc = "persist"
  /\ inbound' = [inbound EXCEPT !.pc = "rejected"]
  /\ UNCHANGED sessVars

InIdle == inbound = NoInbound

\* ============== deliverReplies calls that share a chat ==================
\* src/telegram/bot/delivery.ts lines 85-151 for a text reply, one step per
\* await, so that the calls of several turns interleave; the sent-message
\* cache of the chat (sent-message-cache.ts) is the variable lastSent
MaxDeliveries == 3

VARIABLES
  deliveries,   \* per deliverReplies call: position, thread and run of the
                \* turn it delivers for, isStatusMessage of its reply, and
                \* the id it edits
  chatMessages  \* the messages of the chat: message id -> the thread and
                \* run whose text it shows and whether that text is a status

editVars == <<deliveries, chatMessages>>

Deliveries == 1..MaxDeliveries
Runs == {1, 2}
NoDelivery ==
  [pc |-> "new", thread |-> 0, run |-> 1, isStatusMessage |-> FALSE,
   editId |-> NoId]
NoMessage == [thread |-> 0, run |-> 0, isStatus |-> FALSE]

\* lines 88-90: getLastSentMessage(chatId) and shouldEditLast; the cache is
\* keyed by the chat alone (sent-message-cache.ts lines 16-18, 69-75)
ShouldEditLast(threadId, run) ==
  lastSent.isStatus /\ lastSent.messageId # NoId /\ lastSent.recent

\* lines 33-47: recordSentMessage(chatId, messageId, isStatus)
recordSentMessage(messageId, isStatus) ==
  lastSent' = [messageId |-> messageId, isStatus |-> isStatus,
               recent |-> TRUE]

\* lines 85-99 and 114-133: a call with one text reply runs to its first
\* await, the edit of the last status message or the send of a new message
DeliverBegin(c, threadId, run, isStatusMessage) ==
  /\ deliveries[c].pc = "new"
  /\ \A b \in 1..(c - 1) : deliveries[b].pc # "new"
  /\ deliveries' =
       [deliveries EXCEPT
          ![c] = [pc |-> IF ShouldEditLast(threadId, run) THEN "editing"
                         ELSE "sending",
                  thread |-> threadId, run |-> run,
                  isStatusMessage |-> isStatusMessage,
                  editId |-> IF ShouldEditLast(threadId, run)
                             THEN lastSent.messageId ELSE NoId]]
  /\ UNCHANGED <<chatMessages, lastSent, nextMsgId>>

\* lines 99-112 and 148-151: editMessageTelegram settles; on success the
\* edited id is recorded, on failure the reply is sent as a new message
EditSettles(c, ok) ==
  /\ deliveries[c].pc = "editing"
  /\ IF ok
     THEN /\ chatMessages' =
               [chatMessages EXCEPT
                  ![deliveries[c].editId] =
                     [thread |-> deliveries[c].thread,
                      run |-> deliveries[c].run,
                      isStatus |-> deliveries[c].isStatusMessage]]
          /\ recordSentMessage(deliveries[c].editId,
                               deliveries[c].isStatusMessage)
          /\ deliveries' = [deliveries EXCEPT ![c].pc = "done"]
     ELSE /\ deliveries' = [deliveries EXCEPT ![c].pc = "sending"]
          /\ UNCHANGED <<chatMessages, lastSent>>
  /\ UNCHANGED nextMsgId

\* lines 114-151: the status message or the text chunk is sent as a new
\* message and recorded
NewMessageSent(c) ==
  /\ deliveries[c].pc = "sending"
  /\ chatMessages' =
       [chatMessages EXCEPT
          ![nextMsgId] = [thread |-> deliveries[c].thread,
                          run |-> deliveries[c].run,
                          isStatus |-> deliveries[c].isStatusMessage]]
  /\ recordSentMessage(nextMsgId, deliveries[c].isStatusMessage)
  /\ nextMsgId' = nextMsgId + 1
  /\ deliveries' = [deliveries EXCEPT ![c].pc = "done"]

\* line 90: two minutes pass since the last message was recorded
TwoMinutesPass ==
  /\ lastSent.recent
  /\ lastSent' = [lastSent EXCEPT !.recent = FALSE]
  /\ UNCHANGED <<deliveries, chatMessages, nextMsgId>>

EditIdle ==
  /\ deliveries = [c \in Deliveries |-> NoDelivery]
  /\ chatMessages = [i \in 1..MaxDeliveries |-> NoMessage]

auxVars == <<voiceVars, ctxVars, hourVars, inVars, editVars>>

AuxIdle == VoiceIdle /\ CtxIdle /\ HourIdle /\ InIdle /\ EditIdle

routeVars == <<turnVars, pipeVars, delivVars>>

RouteIdle == TurnIdle /\ NewPipeline /\ DelivIdle /\ AuxIdle

vars == <<schedVars, sessVars, resetVars, statusVars, routeVars, auxVars>>

ResetIdle ==
  /\ rpc = "off"
  /\ rcfg = [hasKey |-> TRUE, hasStore |-> TRUE, hasPath |-> TRUE,
             hasEntryParam |-> TRUE]
  /\ thread = 0
  /\ turnNo = 0
  /\ attempts = 0
  /\ failKind = "none"
  /\ activeEntry = NoObj
  /\ activeIsNewSession = FALSE
  /\ followupRun = [sessionId |-> 0, sessionFile |-> NoFile]
  /\ files = {}
  /\ unlinkTried = {}
  /\ errLog = {}
  /\ resetRet = "none"
  /\ resetCalls = 0
  /\ retries = 0
  /\ turnResult = "none"
  /\ pre = [prevSid |-> 0, cleanup |-> FALSE, nextRef |-> NoObj,
            heap |-> <<>>, memStore |-> <<>>, disk |-> <<>>,
            followupRun |-> [sessionId |-> 0, sessionFile |-> NoFile],
            activeEntry |-> NoObj, isNew |-> FALSE, files |-> {}]
  /\ introAt = 0
  /\ nextSid = Cardinality(Keys) + 1

Init == SchedInit /\ SessInit /\ ResetIdle /\ StatusIdle /\ RouteIdle

\* no inbound message is in flight while the isolated turn runs
SchedIdle == SchedInit /\ sessCfg = "full"

\* The states a turn can find the session in
InitReset ==
  /\ SchedIdle
  /\ StatusIdle
  /\ RouteIdle
  /\ rpc = "idle"
  /\ thread \in {0, Topic}
  /\ rcfg \in [hasKey : BOOLEAN, hasStore : BOOLEAN, hasPath : BOOLEAN,
               hasEntryParam : BOOLEAN]
  /\ \E aborted \in BOOLEAN, named \in BOOLEAN, stored \in BOOLEAN,
        owed \in BOOLEAN :
       LET e == [InitEntry(1) EXCEPT
                   !.abortedLastRun = aborted,
                   !.groupActivationNeedsSystemIntro = owed,
                   !.sessionFile = IF named
                                   THEN resolveSessionTranscriptPath(1, thread)
                                   ELSE NoFile]
       IN /\ heap = <<e, InitEntry(2)>>
          /\ memStore = [k \in Keys |->
                           IF k = SK
                           THEN (IF rcfg.hasStore /\ stored THEN 1 ELSE NoObj)
                           ELSE 2]
          /\ disk = [k \in Keys |-> IF k = SK THEN e ELSE InitEntry(2)]
  /\ clock = 0
  /\ files \in SUBSET {resolveSessionTranscriptPath(1, 0),
                       resolveSessionTranscriptPath(1, thread)}
  /\ turnNo = 0
  /\ attempts = 0
  /\ failKind = "none"
  /\ activeEntry = NoObj
  /\ activeIsNewSession = FALSE
  /\ followupRun = [sessionId |-> 0, sessionFile |-> NoFile]
  /\ unlinkTried = {}
  /\ errLog = {}
  /\ resetRet = "none"
  /\ resetCalls = 0
  /\ retries = 0
  /\ turnResult = "none"
  /\ pre = [prevSid |-> 0, cleanup |-> FALSE, nextRef |-> NoObj,
            heap |-> <<>>, memStore |-> <<>>, disk |-> <<>>,
            followupRun |-> [sessionId |-> 0, sessionFile |-> NoFile],
            activeEntry |-> NoObj, isNew |-> FALSE, files |-> {}]
  /\ introAt = 0
  /\ nextSid = Cardinality(Keys) + 1

NextReset ==
  \/ TurnStart /\ UNCHANGED <<schedVars, statusVars, routeVars, auxVars>>
  \/ AttemptOk /\ UNCHANGED <<schedVars, statusVars, routeVars, auxVars>>
  \/ AttemptFailReset /\ UNCHANGED <<schedVars, statusVars, routeVars, auxVars>>
  \/ AttemptFailFinal /\ UNCHANGED <<schedVars, statusVars, routeVars, auxVars>>
  \/ ResetPersistOk /\ UNCHANGED <<schedVars, statusVars, routeVars, auxVars>>
  \/ ResetPersistFail /\ UNCHANGED <<schedVars, statusVars, routeVars, auxVars>>
  \/ IntroPersistOk /\ UNCHANGED <<schedVars, statusVars, routeVars, auxVars>>
  \/ IntroPersistFail /\ UNCHANGED <<schedVars, statusVars, routeVars, auxVars>>

SpecReset == InitReset /\ [][NextReset]_vars

Next ==
  \/ \E m \in Msgs : RunReplyAgent(m) /\ UNCHANGED <<resetVars, statusVars, routeVars, auxVars>>
  \/ \E m \in Msgs : BumpPersistOk(m) /\ UNCHANGED <<resetVars, statusVars, routeVars, auxVars>>
  \/ \E m \in Msgs : BumpPersistFail(m) /\ UNCHANGED <<resetVars, statusVars, routeVars, auxVars>>
  \/ \E m \in Msgs : TurnReturn(m) /\ UNCHANGED <<resetVars, statusVars, routeVars, auxVars>>
  \/ \E m \in Msgs : TurnThrow(m) /\ UNCHANGED <<resetVars, statusVars, routeVars, auxVars>>
  \/ \E m \in Msgs : FollowupEnd(m) /\ UNCHANGED <<resetVars, statusVars, routeVars, auxVars>>

Spec == Init /\ [][Next]_vars

\* The controller under every configuration and callback set
InitStatus ==
  /\ RouteIdle
  /\ SchedIdle
  /\ SessInit
  /\ ResetIdle
  /\ scfg \in StatusConfigs
  /\ callbacks \in CallbackSets
  /\ NewController

NextStatus ==
  \/ Start /\ UNCHANGED <<schedVars, sessVars, resetVars, routeVars, auxVars>>
  \/ \E phase \in PhaseInputs :
       SetPhase(phase) /\ UNCHANGED <<schedVars, sessVars, resetVars, routeVars, auxVars>>
  \/ TimerTick /\ UNCHANGED <<schedVars, sessVars, resetVars, routeVars, auxVars>>
  \/ \E c \in inflight, outcome \in {"id", "noid", "reject"} :
       SendSettle(c, outcome) /\ UNCHANGED <<schedVars, sessVars, resetVars, routeVars, auxVars>>
  \/ \E finalText \in FinalTexts :
       Complete(finalText) /\ UNCHANGED <<schedVars, sessVars, resetVars, routeVars, auxVars>>
  \/ \E finalText \in FinalTexts :
       completeStatusUpdate(finalText)
         /\ UNCHANGED <<schedVars, sessVars, resetVars, routeVars, auxVars>>
  \/ Cleanup /\ UNCHANGED <<schedVars, sessVars, resetVars, routeVars, auxVars>>
  \/ \E d \in pendingDelete, outcome \in {"ok", "reject"} :
       DeleteSettle(d, outcome)
         /\ UNCHANGED <<schedVars, sessVars, resetVars, routeVars, auxVars>>

SpecStatus == InitStatus /\ [][NextStatus]_vars

\* One call of runReplyAgent, from the gate to its return
InitTurn ==
  /\ AuxIdle
  /\ NewPipeline
  /\ DelivIdle
  /\ SchedIdle
  /\ SessInit
  /\ ResetIdle
  /\ scfg \in {DEFAULT_CONFIG, [DEFAULT_CONFIG EXCEPT !.enabled = TRUE]}
  /\ callbacks = "blockReply"
  /\ NewController
  /\ tin \in [gate : {"run", "steered", "queued"},
               blockReplyPipeline : BOOLEAN, verboseEnabled : BOOLEAN,
               activeIsNewSession : BOOLEAN, responseUsageLine : BOOLEAN]
  /\ tpc = "start"
  /\ exit = "none"
  /\ stopCalls = 0
  /\ flushCalls = 0
  /\ pendingToolTasks = {}
  /\ settledTasks = {}
  /\ payloadArray = <<>>
  /\ autoCompactionCompleted = FALSE
  /\ replyPayloads = <<>>
  /\ finalPayloads = <<>>
  /\ sameArray = TRUE
  /\ markedText = Undefined
  /\ returned = <<>>
  /\ unsettledAtEnd = {}
  /\ incrementCalls = 0

NextTurn ==
  \/ TurnGate /\ UNCHANGED <<schedVars, sessVars, resetVars, statusVars, pipeVars,
                    delivVars, auxVars>>
  \/ ToolTaskStart /\ UNCHANGED <<schedVars, sessVars, resetVars, statusVars, pipeVars,
                    delivVars, auxVars>>
  \/ \E t \in 1..MaxTasks :
       ToolTaskSettle(t)
         /\ UNCHANGED <<schedVars, sessVars, resetVars, statusVars, pipeVars,
                    delivVars, auxVars>>
  \/ \E payloads \in AgentPayloadLists :
       AgentFinal(payloads)
         /\ UNCHANGED <<schedVars, sessVars, resetVars, statusVars, pipeVars,
                    delivVars, auxVars>>
  \/ \E payloads \in AgentPayloadLists, compacted \in BOOLEAN :
       AgentSuccess(payloads, compacted)
         /\ UNCHANGED <<schedVars, sessVars, resetVars, statusVars, pipeVars,
                    delivVars, auxVars>>
  \/ FlushDone /\ UNCHANGED <<schedVars, sessVars, resetVars, statusVars, pipeVars,
                    delivVars, auxVars>>
  \/ TasksSettled /\ UNCHANGED <<schedVars, sessVars, resetVars, statusVars, pipeVars,
                    delivVars, auxVars>>
  \/ Assemble /\ UNCHANGED <<schedVars, sessVars, resetVars, statusVars, pipeVars,
                    delivVars, auxVars>>
  \/ TurnReturns /\ UNCHANGED <<schedVars, sessVars, resetVars, statusVars, pipeVars,
                    delivVars, auxVars>>
  \/ TurnThrows /\ UNCHANGED <<schedVars, sessVars, resetVars, statusVars, pipeVars,
                    delivVars, auxVars>>

SpecTurn == InitTurn /\ [][NextTurn]_vars

\* A block-reply pipeline under every sequence of push, timeout, flush and
\* stop
InitPipe ==
  /\ AuxIdle
  /\ SchedIdle
  /\ SessInit
  /\ ResetIdle
  /\ StatusIdle
  /\ TurnIdle
  /\ NewPipeline
  /\ DelivIdle

NextPipe ==
  \/ \E f \in Fragments(pushed + 1) :
       Push(f) /\ UNCHANGED <<schedVars, sessVars, resetVars, statusVars,
                              turnVars, delivVars, auxVars>>
  \/ FlushTimeout /\ UNCHANGED <<schedVars, sessVars, resetVars, statusVars,
                                  turnVars, delivVars, auxVars>>
  \/ FlushForce /\ UNCHANGED <<schedVars, sessVars, resetVars, statusVars,
                                turnVars, delivVars, auxVars>>
  \/ PipeStop /\ UNCHANGED <<schedVars, sessVars, resetVars, statusVars,
                              turnVars, delivVars, auxVars>>

SpecPipe == InitPipe /\ [][NextPipe]_vars

\* One call of deliverReplies, for every list of payloads, with the last
\* message of the chat a recent status message or not
InitDeliver ==
  /\ AuxIdle
  /\ SchedIdle
  /\ SessInit
  /\ ResetIdle
  /\ StatusIdle
  /\ TurnIdle
  /\ NewPipeline
  /\ replyToMode \in {"off", "first", "all"}
  /\ replies \in UNION {[1..len -> ReplyShapes] : len \in 1..MaxReplies}
  /\ dpos = 1
  /\ hasReplied = FALSE
  /\ sends = <<>>
  /\ nextMsgId = 2
  /\ lastSent \in {NoLastSent,
                    [messageId |-> 1, isStatus |-> TRUE, recent |-> TRUE]}
  /\ errorLogged = {}
  /\ verboseLogged = {}
  /\ lastEdit = "none"
  /\ dresult = "running"

NextDeliver ==
  \E editOutcome \in {"none", "ok", "fail"}, failAt \in 0..3 :
    DeliverReply(editOutcome, failAt)
      /\ UNCHANGED <<schedVars, sessVars, resetVars, statusVars, turnVars,
                     pipeVars, auxVars>>

SpecDeliver == InitDeliver /\ [][NextDeliver]_vars

\* The media items of one reply, for every content type loadWebMedia returns
InitVoice ==
  /\ SchedIdle
  /\ SessInit
  /\ ResetIdle
  /\ StatusIdle
  /\ TurnIdle
  /\ NewPipeline
  /\ DelivIdle
  /\ CtxIdle
  /\ HourIdle
  /\ InIdle
  /\ EditIdle
  /\ mediaList \in 1..MaxMedia
  /\ wantsVoice \in BOOLEAN
  /\ onVoiceRecording \in BOOLEAN
  /\ mpos = 1
  /\ mpc = "load"
  /\ media = "image/png"
  /\ events = <<>>

voiceOthers ==
  <<schedVars, sessVars, resetVars, statusVars, routeVars, ctxVars,
    hourVars, inVars, editVars>>

NextVoice ==
  \/ \E contentType \in ContentTypes :
       LoadMedia(contentType) /\ UNCHANGED voiceOthers
  \/ LoadMediaFails /\ UNCHANGED voiceOthers
  \/ \E ok \in BOOLEAN : VoiceRecordingSettles(ok) /\ UNCHANGED voiceOthers
  \/ \E ok \in BOOLEAN : SendMedia(ok) /\ UNCHANGED voiceOthers

SpecVoice == InitVoice /\ [][NextVoice]_vars

\* One run with its status context: the configurations runReplyAgent can
\* build a controller from, with the callbacks of lines 327-352 (which have
\* no deleteStatus, so that no delete is ever awaited)
InitRun ==
  /\ SchedIdle
  /\ SessInit
  /\ ResetIdle
  /\ TurnIdle
  /\ NewPipeline
  /\ DelivIdle
  /\ VoiceIdle
  /\ HourIdle
  /\ InIdle
  /\ EditIdle
  /\ scfg \in {resolveStatusUpdateConfig(c) :
                 c \in [enabled : {FALSE}]
                        \cup [enabled : {TRUE}, mode : StatusModes,
                              showElapsedTime : BOOLEAN]}
  /\ callbacks \in {"blockReply", "noop"}
  /\ NewController
  /\ NewRunContext
  /\ runPc = "create"

runOthers ==
  <<schedVars, sessVars, resetVars, routeVars, voiceVars, hourVars,
    inVars, editVars>>

NextRun ==
  \/ RunCreate /\ UNCHANGED runOthers
  \/ \E event \in AgentEvents : AgentEvent(event) /\ UNCHANGED runOthers
  \/ RunComplete /\ UNCHANGED runOthers
  \/ RunFinally /\ UNCHANGED runOthers
  \/ TimerTick /\ UNCHANGED <<runOthers, ctxVars>>
  \/ \E c \in inflight, outcome \in {"id", "noid", "reject"} :
       SendSettle(c, outcome) /\ UNCHANGED <<runOthers, ctxVars>>

SpecRun == InitRun /\ [][NextRun]_vars

\* The hourglass tracking under every interleaving of its calls
InitHour ==
  /\ SchedIdle
  /\ SessInit
  /\ ResetIdle
  /\ StatusIdle
  /\ TurnIdle
  /\ NewPipeline
  /\ DelivIdle
  /\ VoiceIdle
  /\ CtxIdle
  /\ HourIdle
  /\ InIdle
  /\ EditIdle

hourOthers ==
  <<schedVars, sessVars, resetVars, statusVars, routeVars, voiceVars,
    ctxVars, inVars, editVars>>

NextHour ==
  \/ \E key \in Targets, messageId \in {0, nextHourglassId} :
       trackTelegramHourglass(key, messageId) /\ UNCHANGED hourOthers
  \/ \E key \in Targets :
       deletePriorTelegramHourglass(key) /\ UNCHANGED hourOthers
  \/ \E d \in deleting, ok \in BOOLEAN :
       HourglassDeleteSettles(d, ok) /\ UNCHANGED hourOthers
  \/ \E key \in Targets :
       clearTelegramHourglass(key) /\ UNCHANGED hourOthers

SpecHour == InitHour /\ [][NextHour]_vars

\* A turn that may reset the session, and one inbound message of the same
\* key that arrives while it runs
InitBump == InitReset /\ rcfg.hasStore /\ rcfg.hasKey /\ thread = 0

bumpOthers ==
  <<schedVars, resetVars, statusVars, routeVars, voiceVars, ctxVars,
    hourVars, editVars>>

NextBump ==
  \/ NextReset
  \/ InboundRead /\ UNCHANGED bumpOthers
  \/ \E via \in {"steer", "enqueue"} :
       InboundBump(via) /\ UNCHANGED bumpOthers
  \/ InboundPersistOk /\ UNCHANGED bumpOthers
  \/ InboundPersistFail /\ UNCHANGED bumpOthers

SpecBump == InitBump /\ [][NextBump]_vars

\* The deliverReplies calls of turns that share a chat
InitEdit == Init

editOthers ==
  <<schedVars, sessVars, resetVars, statusVars, turnVars, pipeVars,
    replyToMode, replies, dpos, hasReplied, sends, errorLogged,
    verboseLogged, lastEdit, dresult, voiceVars, ctxVars, hourVars, inVars>>

NextEdit ==
  \/ \E c \in Deliveries, threadId \in {0, Topic}, run \in Runs,
        isStatusMessage \in BOOLEAN :
       DeliverBegin(c, threadId, run, isStatusMessage)
         /\ UNCHANGED editOthers
  \/ \E c \in Deliveries, ok \in BOOLEAN :
       EditSettles(c, ok) /\ UNCHANGED editOthers
  \/ \E c \in Deliveries : NewMessageSent(c) /\ UNCHANGED editOthers
  \/ TwoMinutesPass /\ UNCHANGED editOthers

SpecEdit == InitEdit /\ [][NextEdit]_vars

\* Every site that writes the session record: the gate of an inbound
\* message, or a turn that runs to its end
InitStore == Init \/ InitReset

NextStore ==
  \/ rpc = "off" /\ Next
  \/ rpc # "off" /\ NextReset

SpecStore == InitStore /\ [][NextStore]_vars

\* ======================= claims about the gate and the queue ============
IsPrefix(s, t) ==
  /\ Len(s) <= Len(t)
  /\ \A i \in 1..Len(s) : s[i] = t[i]

\* the last call was made while a turn was active for its key
LastArrivedActive == lastGate.m # 0 /\ lastGate.isActive

C3_NoFollowupStranded ==
  \A k \in Keys : active[k] = {} => queue[k] = <<>>

C5_BumpFailureNotRaised ==
  \A m \in Msgs :
    (path[m] \in {"steer", "enqueue"}
       /\ pc[m] \notin {"steer_persist", "enq_persist"})
    => /\ pc[m] = "returned"
       /\ result[m] = "undefined"
       /\ typingCleaned[m]
\* ======================= claims about resetSession =======================
\* the entry resetSession started from
PreEntry ==
  pre.heap[IF pre.memStore[SK] # NoObj THEN pre.memStore[SK]
           ELSE pre.activeEntry]

FullConfig == rcfg.hasKey /\ rcfg.hasStore /\ rcfg.hasPath

\* C6: a resetSession call with session key, store, store path and an
\* existing entry returns true; the record then has a new session id,
\* systemSent and abortedLastRun false and the transcript path of the new
\* id, and the store entry, activeSessionEntry and followupRun all carry
\* that id and file, with the turn marked as a new session.
C6_ResetPostcondition ==
  /\ resetRet = "true" =>
       LET e == heap[memStore[SK]] IN
       /\ e.sessionId # pre.prevSid
       /\ \A o \in 1..Len(pre.heap) : pre.heap[o].sessionId # e.sessionId
       /\ ~e.systemSent
       /\ ~e.abortedLastRun
       /\ e.sessionFile = <<"transcript", e.sessionId, thread>>
       /\ e.compactionCount = PreEntry.compactionCount
       /\ activeEntry = memStore[SK]
       /\ followupRun.sessionId = e.sessionId
       /\ followupRun.sessionFile = e.sessionFile
       /\ activeIsNewSession
       /\ "persist" \notin errLog =>
            /\ disk[SK].sessionId = e.sessionId
            /\ disk[SK].sessionFile = e.sessionFile
            /\ ~disk[SK].systemSent /\ ~disk[SK].abortedLastRun
            /\ rpc = "exec" => disk[SK] = e
  /\ (resetCalls = 1 /\ rpc # "reset_persist" /\ FullConfig
        /\ pre.prevSid # 0) => resetRet = "true"

\* C6 witness: a reset with everything present has returned true and the
\* store, the durable record and followupRun carry the new id
C6_Witness ==
  /\ resetRet = "true"
  /\ pre.prevSid = 1
  /\ PreEntry.abortedLastRun
  /\ followupRun.sessionId = heap[memStore[SK]].sessionId
  /\ disk[SK].sessionId = followupRun.sessionId

\* C7: without session key, store, store path or previous entry
\* resetSession returns false and changes nothing, at every call.
C7_RefusedResetMutatesNothing ==
  /\ resetRet = "false" =>
       /\ heap = pre.heap
       /\ memStore = pre.memStore
       /\ disk = pre.disk
       /\ followupRun = pre.followupRun
       /\ activeEntry = pre.activeEntry
       /\ activeIsNewSession = pre.isNew
       /\ files = pre.files
       /\ unlinkTried = {}
  /\ (resetCalls = 1 /\ (~FullConfig \/ pre.prevSid = 0)) =>
       resetRet = "false"

\* C7 witness: the second call without a store path has returned false
C7_Witness ==
  /\ resetRet = "false"
  /\ turnNo = 2
  /\ ~rcfg.hasPath
  /\ rcfg.hasKey /\ rcfg.hasStore
  /\ files # {}

\* C8: a role-ordering reset changes the session id and attempts to delete
\* both candidate transcripts of the old session; a failing deletion is
\* swallowed, the other candidate is still attempted, the reset returns
\* true and the turn is retried once.
C8_RoleConflictCleanup ==
  (resetRet = "true" /\ pre.cleanup) =>
    LET byId == <<"transcript", pre.prevSid, 0>>
        resolved == IF PreEntry.sessionFile # NoFile
                    THEN PreEntry.sessionFile ELSE byId
    IN
    /\ followupRun.sessionId # pre.prevSid
    /\ unlinkTried = {resolved, byId}
    /\ files \subseteq pre.files
    /\ (pre.files \ files) \subseteq {resolved, byId}
    /\ retries = 1
    /\ attempts = 2

\* C8 witness: of two existing candidates one deletion failed and the other
\* succeeded, and the reset returned true
C8_Witness ==
  /\ resetRet = "true"
  /\ pre.cleanup
  /\ Cardinality(unlinkTried) = 2
  /\ \E f \in unlinkTried : f \in files
  /\ \E g \in unlinkTried : g \in pre.files /\ g \notin files

\* C9: a failed durable write in resetSession is logged and not raised;
\* the reset returns true with the store entry, activeSessionEntry and
\* followupRun on the new id while the durable store keeps the old record.
C9_PersistFailureTolerated ==
  /\ rpc # "rejected"
  /\ "persist" \in errLog =>
       /\ resetRet = "true"
       /\ heap[memStore[SK]].sessionId # pre.prevSid
       /\ followupRun.sessionId = heap[memStore[SK]].sessionId
       /\ activeEntry = memStore[SK]
       /\ disk[SK].sessionId = pre.disk[SK].sessionId
       /\ rpc = "exec" => disk = pre.disk
       /\ attempts = 2

\* C9 witness: the write failed, the reset returned true, the durable
\* store holds the old id and the in-memory store the new one
C9_Witness ==
  /\ "persist" \in errLog
  /\ resetRet = "true"
  /\ disk[SK].sessionId = pre.prevSid
  /\ heap[memStore[SK]].sessionId # pre.prevSid
  /\ rpc = "exec"

C11_MemoryFirst ==
  /\ \A m \in Msgs :
       (path[m] \in {"steer", "enqueue"} /\ sessCfg # "none") =>
         /\ bumpAt[m] > 0
         /\ heap[memStore[mkey[m]]].updatedAt >= bumpAt[m]
         /\ (m = lastGate.m /\ pc[m] \in {"steer_persist", "enq_persist",
                                          "rejected"}) =>
              /\ heap[memStore[mkey[m]]].updatedAt = bumpAt[m]
              /\ bumpAt[m] > lastGate.updatedAtBefore
              /\ disk[mkey[m]].updatedAt < bumpAt[m]
  /\ (rpc = "reset_persist" \/ "persist" \in errLog) =>
       /\ memStore[SK] = pre.nextRef
       /\ heap[memStore[SK]].sessionId # pre.prevSid
       /\ ~heap[memStore[SK]].systemSent
       /\ disk[SK].sessionId = pre.disk[SK].sessionId
       /\ disk[SK].sessionId # heap[memStore[SK]].sessionId
       /\ rpc = "reset_persist" => disk = pre.disk
  /\ (rpc = "intro_persist" \/ turnResult = "rejected") =>
       /\ memStore[SK] = activeEntry
       /\ ~heap[memStore[SK]].groupActivationNeedsSystemIntro
       /\ heap[memStore[SK]].updatedAt = introAt
       /\ disk[SK].updatedAt < introAt
       /\ disk[SK].groupActivationNeedsSystemIntro

\* C11 witness: the durable write of the cleared group intro failed; the
\* in-memory entry has the intro cleared and the durable record has not
C11_Witness ==
  /\ turnResult = "rejected"
  /\ rpc = "done"
  /\ ~heap[memStore[SK]].groupActivationNeedsSystemIntro
  /\ disk[SK].groupActivationNeedsSystemIntro

\* ===================== claims about the status controller ==============
\* C12: over any sequence of start(), setPhase(), timer ticks, complete()
\* and cleanup() calls, sendStatus is never invoked with a text rendered
\* for the complete phase.
C12_NoCompleteRender == lastSend.forPhase # "complete"

\* C13: calling complete(finalText) twice on the same enabled controller
\* returns the same final text both times.
C13_CompleteIdempotent ==
  (/\ isEnabled
   /\ firstComplete.again
   /\ ~firstComplete.refused
   /\ lastCall.op = "complete"
   /\ lastCall.arg = firstComplete.arg) =>
    lastCall.ret = firstComplete.ret

\* C14: within elapsedTimeThresholdMs of the start of the run no text of
\* the controller contains an elapsed-time figure: no status render and
\* no final text returned by complete().
C14_NoEarlyElapsed ==
  /\ ShowsElapsed(lastSend.text) => ~lastSend.early
  /\ (lastCall.op = "complete" /\ ShowsElapsed(lastCall.ret)) =>
       now - state.startedAt >= scfg.elapsedTimeThresholdMs

C16_SetPhaseAbsorbing ==
  [][/\ (calls' = calls + 1 /\ lastCall'.op = "setPhase") =>
          /\ (stopped \/ state.isComplete) =>
               UNCHANGED <<state, updateTimer, stopped, now, inflight,
                           startPc, pendingDelete, posted, nextMessageId,
                           sendCount, deleteCount, lastSend>>
          /\ (~state.isComplete /\ state'.isComplete) =>
               /\ state' = [state EXCEPT !.phase = "complete",
                                         !.isComplete = TRUE]
               /\ ~updateTimer'
               /\ UNCHANGED <<stopped, now, inflight, startPc,
                              pendingDelete, posted, nextMessageId,
                              sendCount, deleteCount, lastSend>>
     /\ state.phase = "complete" => state'.phase = "complete"]_vars

\* C16 witness: after its initial render the controller entered complete
\* through setPhase, and a later setPhase call was ignored
C16_Witness ==
  /\ isEnabled
  /\ lastCall.op = "setPhase"
  /\ lastCall.late
  /\ ~stopped
  /\ state.phase = "complete"
  /\ state.isComplete
  /\ sendCount = 1
  /\ calls = MaxCalls

\* C17: once the controller is complete or stopped (setPhase("complete"),
\* complete() or cleanup() has returned), no periodic timer is scheduled
\* and no new sendStatus call is started, in every interleaving.
C17_QuietAfterComplete ==
  /\ (state.isComplete \/ stopped) => ~updateTimer
  /\ ~lastSend.late

C19_SingleStatusMessage ==
  (scfg.mode = "edit" /\ supportsEdit) => posted <= 1

\* C20: in inline mode, or when the channel does not support editing,
\* sendStatus is never handed the id of a status message sent before.
C20_NeverHandedId ==
  (scfg.mode = "inline" \/ ~supportsEdit) => lastSend.handed = NoId

\* C21: a rejection of sendStatus or deleteStatus is caught: no call into
\* the controller rejects, and what complete() returns (the text put into
\* the reply payloads) is what it returns when the callbacks succeed: it
\* depends only on the configuration, the final text, the time and
\* whether the controller was already stopped.
C21_CallbackFailuresCaught ==
  /\ ~raised
  /\ firstComplete.done =>
       IF firstComplete.refused THEN firstComplete.ret = Undefined
       ELSE IF isEnabled /\ firstComplete.arg # Undefined
               /\ scfg.markFinalWithCheckmark
       THEN \E t \in Times :
              firstComplete.ret = MarkFinal(firstComplete.arg, t \div 1000)
       ELSE firstComplete.ret = firstComplete.arg

\* C21 witness: a sendStatus call has rejected, no call into the
\* controller has, and complete() has returned the marked final text
C21_Witness ==
  /\ failed
  /\ ~raised
  /\ sendCount > 0
  /\ firstComplete.done
  /\ firstComplete.ret = MarkFinal(Hi, 0)
  /\ inflight = {}

\* ===================== claims about the end of a turn ===================
\* C22: when a turn ends with reply payloads while a status controller is
\* active and the last agent payload has text, the last payload of the
\* returned list carries the text complete() returned, also when a hint, a
\* notice or a usage line was added.
C22_LastPayloadMarked ==
  (/\ exit = "normal"
   /\ createAgentStatusController
   /\ replyPayloads[Len(replyPayloads)].text # NoText) =>
    returned[Len(returned)].text = markedText

C24_TasksSettledBeforeEnd ==
  /\ tpc \in {"assemble", "complete"} => pendingToolTasks \subseteq settledTasks
  /\ exit \in {"final", "empty", "normal"} => unsettledAtEnd = {}

\* C25: for every call that creates a block-reply pipeline, stop() is
\* called exactly once, whichever way the call exits.
C25_StopExactlyOnce ==
  (tin.blockReplyPipeline /\ tpc \in {"returned", "threw"}) => stopCalls = 1

SendsOf(i) == {k \in 1..Len(sends) : sends[k].p = i}

\* the sends that carried the reply-to target
ReplyToSends == {k \in 1..Len(sends) : sends[k].replyTo}

\* C27: a payload with neither text nor media has nothing sent for it and
\* is logged as an error, unless it carries only the audio-as-voice flag,
\* which is skipped with no error logged; in both cases the loop goes on:
\* the payloads around it are delivered and the call never fails at it.
C27_EmptyPayloadDropped ==
  /\ \A i \in 1..(dpos - 1) :
       IF Dropped(replies[i])
       THEN /\ SendsOf(i) = {}
            /\ (i \in errorLogged) = ~replies[i].audioAsVoice
            /\ replies[i].audioAsVoice => i \in verboseLogged
       ELSE SendsOf(i) # {} /\ i \notin errorLogged
  /\ dresult = "threw" => ~Dropped(replies[dpos])
  /\ dresult = "done" => dpos = Len(replies) + 1

C27_Witness ==
  /\ dresult = "done"
  /\ Len(replies) = 3
  /\ Dropped(replies[1]) /\ ~replies[1].audioAsVoice
  /\ Dropped(replies[2]) /\ replies[2].audioAsVoice
  /\ SendsOf(3) # {}
  /\ errorLogged = {1}

\* C28: in mode first, when three payloads that each name the triggering
\* message (none of them a status message) have been delivered, the sends
\* that carried the reply-to target are sends of the first payload, and
\* there is one.
C28_FirstPayloadCarriesReplyTo ==
  (/\ replyToMode = "first"
   /\ dresult = "done"
   /\ Len(replies) = 3
   /\ \A i \in 1..3 : /\ replies[i].replyToId
                      /\ ~Dropped(replies[i])
                      /\ ~replies[i].isStatusMessage)
  => /\ Cardinality(ReplyToSends) = 1
     /\ \A k \in ReplyToSends : sends[k].p = 1

\* C29: in mode first at most one send of a delivery carries the reply-to
\* target, so none after the one that did; in mode off none does.
C29_AtMostOneReplyTo ==
  /\ replyToMode = "first" => Cardinality(ReplyToSends) <= 1
  /\ replyToMode = "off" => ReplyToSends = {}

C29_Witness ==
  /\ replyToMode = "first"
  /\ \E k \in ReplyToSends :
       /\ sends[k].kind = "media"
       /\ \E m, n \in (k + 1)..Len(sends) :
            /\ sends[m].kind = "followup" /\ sends[m].p = sends[k].p
            /\ sends[n].kind = "text" /\ replies[sends[n].p].replyToId

EventsOf(ev, i) ==
  {k \in 1..Len(events) : events[k].ev = ev /\ events[k].item = i}

\* C31: for an item sent by sendVoice, onVoiceRecording was invoked once
\* for it and had completed before sendVoice was called; for an item sent
\* as an audio file or a photo it was not invoked.
C31_VoiceRecordingBeforeSendVoice ==
  \A i \in 1..mediaList :
    /\ \A k \in EventsOf("sendVoice", i) :
         onVoiceRecording =>
           /\ Cardinality(EventsOf("recordVoice", i)) = 1
           /\ \E d \in EventsOf("recordVoiceDone", i) :
                /\ d < k
                /\ \A c \in EventsOf("recordVoice", i) : c < d
    /\ (EventsOf("sendAudio", i) # {} \/ EventsOf("sendPhoto", i) # {}
        \/ ~onVoiceRecording)
         => EventsOf("recordVoice", i) = {}
    /\ EventsOf("recordVoiceFailed", i) # {} => EventsOf("sendVoice", i) = {}

C31_Witness ==
  /\ mpc = "done"
  /\ mediaList = 2
  /\ onVoiceRecording
  /\ EventsOf("sendAudio", 1) # {}
  /\ EventsOf("sendVoice", 2) # {}
  /\ EventsOf("recordVoiceDone", 2) # {}

\* C32: a turn that created a block-reply pipeline never stops it before
\* it has called the forced flush: whenever stop() has been called (payloads
\* returned, nothing to send, final outcome, exception), flush({ force:
\* true }) has been called before.
C32_FlushedBeforeStop ==
  (tin.blockReplyPipeline /\ stopCalls > 0) => flushCalls > 0

\* C33: an event the listener hands over sets the phase of the run to
\* sending_query for lifecycle/start, complete for lifecycle/end,
\* processing_tools for tool/start, receiving_reasoning for every thinking
\* or reasoning event, generating_response for message/start, and leaves it
\* for every other event; an event with no phase, or with the phase the run
\* (or the controller) is in already, changes nothing of the status state
\* and starts no render.
C33_EventMapping ==
  [][\A e \in AgentEvents :
       (AgentEvent(e) /\ listening /\ e.own) =>
         LET claimed ==
               CASE e.stream = "lifecycle" /\ e.phase = "start"
                      -> "sending_query"
                 [] e.stream = "lifecycle" /\ e.phase = "end" -> "complete"
                 [] e.stream = "tool" /\ e.phase = "start"
                      -> "processing_tools"
                 [] e.stream \in {"thinking", "reasoning"}
                      -> "receiving_reasoning"
                 [] e.stream = "message" /\ e.phase = "start"
                      -> "generating_response"
                 [] OTHER -> NoPhase
         IN /\ currentPhase' = IF claimed = NoPhase THEN currentPhase
                               ELSE claimed
            /\ (claimed = NoPhase \/ claimed = currentPhase)
                 => UNCHANGED statusVars
            /\ claimed = state.phase
                 => /\ state' = state
                    /\ sendCount' = sendCount
                    /\ inflight' = inflight]_vars

C33_Witness ==
  /\ runPc = "exec"
  /\ listening
  /\ currentPhase = "receiving_reasoning"
  /\ state.phase = "receiving_reasoning"
  /\ sendCount = 2

\* C38: once runReplyAgent has left its try block with a controller, the
\* listener is unsubscribed, removeEventListener() and cleanup() have each
\* run once, and no timer of the run is scheduled.
C38_ExitCleansUp ==
  (runPc = "exited" /\ createAgentStatusController)
  => /\ ~listening
     /\ removeCalls = 1
     /\ cleanupCalls = 1
     /\ ~updateTimer

\* C39: the phase of the run context is the phase of an enabled controller.
C39_ContextPhaseMatches ==
  (createAgentStatusController /\ isEnabled) => currentPhase = state.phase

\* the fields of a session entry a reset does not assign (lines 259-272)
KeptFields ==
  DOMAIN InitEntry(1) \ {"sessionId", "sessionFile", "updatedAt",
                         "systemSent", "abortedLastRun"}

\* C34 as stated: when resetSession returns true the record is still there
\* under the session key, in the store and in the durable file, and each
\* copy has every field but the five assigned ones as it was before the
\* call; a compaction-failure reset deletes no transcript file.
C34_RecordFieldsUnchanged ==
  [][(rpc = "reset_persist" /\ rpc' = "exec")
     => /\ memStore'[SK] # NoObj
        /\ disk'[SK] # NoRec
        /\ \A f \in KeptFields :
             /\ heap'[memStore'[SK]][f] = PreEntry[f]
             /\ disk'[SK][f] = pre.disk[SK][f]
        /\ failKind = "compaction" => files' = files]_vars

\* C34 (amended): when resetSession returns true the record is still there
\* under the session key, in the store and in the durable file; the store
\* entry has every field but the five assigned ones as the entry the reset
\* started from had them; the durable record, when the write succeeds, is
\* replaced by that store entry, and is untouched when the write fails; a
\* compaction-failure reset deletes no transcript file.
C34_ResetKeepsRecord ==
  [][(rpc = "reset_persist" /\ rpc' = "exec")
     => /\ memStore'[SK] # NoObj
        /\ disk'[SK] # NoRec
        /\ \A f \in KeptFields : heap'[memStore'[SK]][f] = PreEntry[f]
        /\ \/ disk'[SK] = heap'[memStore'[SK]]
           \/ disk' = pre.disk
        /\ failKind = "compaction" => files' = files]_vars

C34_Witness ==
  /\ resetRet = "true"
  /\ rpc = "exec"
  /\ failKind = "compaction"
  /\ PreEntry.groupActivationNeedsSystemIntro
  /\ heap[memStore[SK]].groupActivationNeedsSystemIntro
  /\ heap[memStore[SK]].sessionId # pre.prevSid
  /\ disk[SK] = heap[memStore[SK]]
  /\ files # {}

ResetCompletedSinceRead ==
  /\ memStore[SK] # NoObj
  /\ memStore[SK] > inbound.seen
  /\ rpc # "reset_persist"

\* C36: when a reset of the session completed after the entry of a steered
\* or enqueued message was read, the bump of that message, in memory and
\* in its durable write, leaves the session id and the systemSent and
\* abortedLastRun flags of the in-memory store entry and of the durable
\* record as the reset set them.
C36_BumpKeepsSessionId ==
  [][inbound.pc \in {"read", "persist"} /\ inbound'.pc # inbound.pc
     /\ ResetCompletedSinceRead
       => /\ memStore'[SK] # NoObj
          /\ \A f \in {"sessionId", "systemSent", "abortedLastRun"} :
               /\ heap'[memStore'[SK]][f] = heap[memStore[SK]][f]
               /\ disk'[SK][f] = disk[SK][f]]_vars

\* C37: a reply replaces a message in place only when that message shows a
\* status of the thread and run the reply belongs to: no edit overwrites
\* the status message of another turn of the chat, and no message that
\* shows a non-status reply is edited.
C37_EditsOwnStatusOnly ==
  [][\A c \in Deliveries :
       deliveries[c].pc = "editing" /\ deliveries'[c].pc = "done"
         => /\ chatMessages[deliveries[c].editId].isStatus
            /\ chatMessages[deliveries[c].editId].thread =
                 deliveries[c].thread
            /\ chatMessages[deliveries[c].editId].run = deliveries[c].run]_vars

\* C40: a call that has returned after a run outcome with
\* autoCompactionCompleted has called incrementCompactionCount exactly
\* once, whatever the verbose level and whether or not a reply payload was
\* left to deliver.
C40_CompactionCountedOnce ==
  (tpc = "returned" /\ autoCompactionCompleted) => incrementCalls = 1


====
